---- MODULE Spec2Model ----
(***************************************************************************)
(* StoryScapeService (src/services/geminiLiveService.ts): the realtime     *)
(* audio session manager.  The model follows the JavaScript run-to-        *)
(* completion discipline: a handler runs up to its first await, what       *)
(* follows an await is a continuation, continuations on settled promises   *)
(* run in FIFO order (the microtask queue) before any other event is       *)
(* delivered.                                                              *)
(***************************************************************************)
EXTENDS Integers, Sequences, FiniteSets, TLC

\* ------------------------------------------------------------------ bounds
MaxChunks == 2      \* audio payloads delivered in one behaviour
MaxClock == 2       \* output clock ticks
MaxStops == 2       \* stopAllAudio invocations
MaxSends == 2       \* sendTextChoice calls
MaxHist == 2        \* history entries handed to startAdventure
MaxText == 2        \* characters in one history text
MaxStopCalls == 2   \* stopAdventure calls
MaxMicCalls == 3    \* setMicActive calls
MaxFrames == 2      \* onaudioprocess events
MaxStr == 3         \* characters in one argument of smartAppend

Durations == {1, 2}   \* chunk durations, in clock ticks
Chars == {"a", "b"}
Roles == {"user", "model"}

Max(a, b) == IF a >= b THEN a ELSE b

SeqsUpTo(S, n) == UNION {[1..k -> S] : k \in 0..n}
Texts == SeqsUpTo(Chars, MaxText)
Histories == SeqsUpTo([role : Roles, text : Texts], MaxHist)

VARIABLES
  \* ---- fields of StoryScapeService and of the startAdventure closure
  sessionPromise,   \* "null" | "pending" | "fulfilled" | "rejected"
  outCtx,           \* outputAudioContext: "null" | "suspended" | "running" | "closed"
  nextStartTime,
  sources,          \* live AudioBufferSourceNodes, by chunk id
  isPaused,
  recordedBuffers,  \* chunk ids, in push order
  contextSummary,   \* the text startAdventure computed
  hasTurnCb,        \* callbacks.onTurnComplete was supplied
  \* ---- the runtime
  thenQ,            \* reactions registered on the pending sessionPromise
  resumeWaiters,    \* handleAudioOutput invocations awaiting resume()
  microtasks,       \* continuations ready to run, FIFO
  \* ---- the environment
  currentTime,      \* outputAudioContext.currentTime
  wsOpen,           \* the transport has fired onopen
  outbound,         \* frames handed to session.sendRealtimeInput, in order
  history,          \* the history argument of startAdventure
  \* ---- the record of what happened
  chunks,           \* chunk id -> [dur, epoch]: arrival order is id order
  started,          \* source.start calls, in call order
  stopped,          \* sources on which stop() was called
  stopCount,        \* stopAllAudio invocations so far
  lastMsg,          \* the most recent onmessage invocation
  sendCount,
  \* ---- the microphone
  inCtx,            \* inputAudioContext: "null" | "suspended" | "running" | "closed"
  isMicActive,
  stream,           \* this.stream: 0 is null, n > 0 the stream call n acquired
  scriptProcessor,  \* this.scriptProcessor: 0 is null, n > 0 the node call n created
  micCalls,         \* setMicActive calls in call order: [active, pc]
  acquired,         \* streams getUserMedia handed out
  released,         \* streams whose tracks were stopped
  liveProcs,        \* script processors created and not disconnected
  frameCount,       \* onaudioprocess events so far
  \* ---- the end of the session
  stopPc,           \* where the latest stopAdventure call stands
  stopCalls,        \* stopAdventure calls so far
  sessionClosed,    \* session.close() was called
  connectCalls,     \* ai.live.connect calls so far
  lastTransport,    \* what the latest onerror / onclose handler did
  \* ---- the view's transcript reconciler
  view,             \* the component that owns the callbacks
  messages,         \* the message history: [role, text]
  narratorAccumulator,
  userAccumulator,
  events,           \* the callback invocations so far, in order
  sinceCommit,      \* per role, the fragments received since its last commit
  \* ---- one application of smartAppend
  saPrev,
  saNext,
  saApplied,
  saResult,
  \* ---- encode / decode (src/utils/audioUtils.ts)
  bytes,            \* the Uint8Array handed to encode
  base64,           \* encode's result, NotYet before
  decoded,           \* decode's result, NotYet before
  \* ---- fastAudioBuffersToWav (src/unnamed/part_008)
  buffers,          \* the AudioBuffer list: [numberOfChannels, length]
  wav,               \* the Blob returned, NotYet before
  \* ---- createBlob (src/services/geminiLiveService.ts)
  data,             \* the Float32Array, each sample in units of 1/SampleUnit
  int16,             \* the Int16Array built, NotYet before
  \* ---- callWithRetry (src/components/StoryGuruView.tsx)
  retryPc,          \* idle, calling, waiting, returned or thrown
  retryCount,       \* the retryCount argument of the innermost invocation
  waitLeft,         \* the loop variable i of the wait loop
  apiCalls,         \* the outcomes of the apiCall invocations, in order
  waitTimes,        \* the waitTime computed before each retry
  rethrown,          \* the error thrown to the caller, NotYet before
  \* ---- smartAppend applied a second time
  saAgain,           \* smartAppend(saResult, saNext), NotYet before
  \* ---- PodcastView / MovieExplainerView transcript (src/unnamed/part_004)
  podView,          \* the component that owns the callbacks
  transcriptions,   \* the message list: [role, text]
  currentModelText, \* the React state, as the latest render sees it
  closureModelText, \* currentModelText as the callbacks' closure sees it
  podEvents,        \* the onTranscriptionUpdate calls so far
  turnFragments,     \* non-final model fragments since the last final one
  \* ---- SingerView (src/components/SingerView.tsx)
  vocalFX,          \* the React state
  isChangingFX,     \* isChangingFX.current
  singerSessions,   \* the services created, in order: [phase, forFX]
  exitCalls,         \* the sessions whose close event called onExit
  \* ---- PodcastView / MovieExplainerView services (src/unnamed/part_004)
  podMounted,       \* the view is mounted
  podServices,      \* initService invocations, in order: the phase of each
  podServiceRef,    \* serviceRef.current: 0 is null, i the service of invocation i
  reconnectTimers,  \* pending setTimeout(() => initService(config), 5000)
  errorCount,       \* onError calls so far
  cleanupStopped,   \* the live service the unmount cleanup stopped, 0 if none
  lateStarts,        \* the services whose startAdventure ran after the unmount
  \* ---- StoryGuruView playback (src/components/StoryGuruView.tsx)
  isPlaying,        \* the React state, as the latest render sees it
  activePartIndex,  \* the React state
  currentSource,    \* currentSourceRef.current: 0 is null, n the n-th source
  guruSources,      \* the sources created: [part, seg, phase]
  guruTimers,       \* pending setTimeout(() => playSegment(part, seg), 600)
  guruClicks,       \* clicks so far
  guruLog           \* startPlayback and stopPlayback calls, source starts and ends

svcVars == <<sessionPromise, outCtx, nextStartTime, sources, isPaused,
             recordedBuffers, contextSummary, hasTurnCb>>
rtVars == <<thenQ, resumeWaiters, microtasks>>
envVars == <<currentTime, wsOpen, outbound, history>>
logVars == <<chunks, started, stopped, stopCount, lastMsg, sendCount>>
micVars == <<inCtx, isMicActive, stream, scriptProcessor, micCalls, acquired,
             released, liveProcs, frameCount>>
stopVars == <<stopPc, stopCalls, sessionClosed, connectCalls, lastTransport>>
transcriptVars == <<view, messages, narratorAccumulator, userAccumulator,
                    events, sinceCommit, saPrev, saNext, saApplied, saResult>>
codecVars == <<bytes, base64, decoded>>
wavVars == <<buffers, wav>>
blobVars == <<data, int16>>
retryVars == <<retryPc, retryCount, waitLeft, apiCalls, waitTimes, rethrown>>
againVars == <<saAgain>>
podcastVars == <<podView, transcriptions, currentModelText, closureModelText,
                 podEvents, turnFragments>>
singerVars == <<vocalFX, isChangingFX, singerSessions, exitCalls>>
lifecycleVars == <<podMounted, podServices, podServiceRef, reconnectTimers,
                   errorCount, cleanupStopped,
                   lateStarts>>
guruVars == <<isPlaying, activePartIndex, currentSource, guruSources,
              guruTimers, guruClicks, guruLog>>
utilVars == <<codecVars, wavVars, blobVars, retryVars, againVars,
              podcastVars, singerVars, lifecycleVars, guruVars>>
viewVars == <<transcriptVars, utilVars>>
serviceVars == <<svcVars, rtVars, envVars, logVars, micVars, stopVars>>
vars == <<serviceVars, viewVars>>

\* the session part and the playback part of the state
sessVars == <<sessionPromise, contextSummary, hasTurnCb, thenQ, wsOpen,
              outbound, history, sendCount, micVars, stopVars, viewVars>>
playVars == <<nextStartTime, sources, isPaused, recordedBuffers,
              resumeWaiters, microtasks, currentTime, chunks, started,
              stopped, stopCount, lastMsg>>

\* ------------------------------------------------------- inbound messages
\* A LiveServerMessage: serverContent present or not; the first part's
\* inlineData (audio > 0 is the decoded duration, 0 is no audio); text parts;
\* inputTranscription; outputTranscription; turnComplete; interrupted.
NoContent == [content |-> FALSE, audio |-> 0, text |-> FALSE, inT |-> FALSE,
              outT |-> FALSE, turnComplete |-> FALSE, interrupted |-> FALSE]
Messages == {NoContent} \cup
            [content : {TRUE}, audio : {0} \cup Durations, text : BOOLEAN,
             inT : BOOLEAN, outT : BOOLEAN, turnComplete : BOOLEAN,
             interrupted : BOOLEAN]

\* An audio payload that cannot be decoded: atob throws on malformed base64,
\* new Int16Array throws on an odd number of bytes (audioUtils.ts, 12 and 26).
Undecodable == -1
DamagedMsgs == [content : {TRUE}, audio : {Undecodable}, text : {FALSE},
                inT : {FALSE}, outT : {FALSE}, turnComplete : {FALSE},
                interrupted : {FALSE}]

\* the messages that matter to playback, and those that matter to the callbacks
PlaybackMsgs == {m \in Messages : ~m.text /\ ~m.inT /\ ~m.outT /\ ~m.turnComplete}
CallbackMsgs == {m \in Messages : m.audio = 0}

NoMsg == [delivered |-> FALSE, paused |-> FALSE, tcMsg |-> FALSE,
          trPayloads |-> 0, trCalls |-> 0, tcCalls |-> 0]

\* ------------------------------------------------- the code's computations
\* onmessage, lines 137-140: the handler returns before doing anything
HandlerSkipsNoPauseGuard(paused, m) == ~m.content
HandlerSkips(paused, m) == paused \/ ~m.content

\* handleAudioOutput, line 250
AudioSkips(ctx, paused) == ctx = "null" \/ paused

\* handleAudioOutput, line 254: decode and decodeAudioData hand back a buffer
DecodesAnything(d) == TRUE
Decodes(d) == d # Undecodable

\* handleAudioOutput, line 253
ClampStartToClock(ns, ct) == ct
ClampStart(ns, ct) == Max(ns, ct)

\* handleAudioOutput, line 271
AdvanceStartFromZero(ns, d) == d
AdvanceStart(ns, d) == ns + d

\* onmessage, lines 145-156: the onTranscriptionUpdate calls of one message
Payloads(m) == (IF m.text THEN 1 ELSE 0) + (IF m.inT THEN 1 ELSE 0)
               + (IF m.outT THEN 1 ELSE 0)
TranscriptionCalls(paused, m) == IF HandlerSkips(paused, m) THEN 0 ELSE Payloads(m)

\* onmessage, lines 158-160: the onTurnComplete calls of one message
TurnCompleteCalls(paused, m, cb) ==
  IF ~HandlerSkips(paused, m) /\ m.turnComplete /\ cb THEN 1 ELSE 0

\* startAdventure, lines 116-119: the contextual message.  A text is the
\* sequence of its characters; the template's literal parts are single tokens.
ResumeHead == <<"The session is in progress. Last exchange: \"">>
ResumeTail == <<"\". Resume immediately.">>
Initiation == <<"Initiate new session for: ", "topic", " in ", "language", ".">>
LastTurn(h) == IF Len(h) > 0 THEN h[Len(h)].text ELSE <<>>
ContextSummary(h) ==
  IF LastTurn(h) # <<>>
  THEN ResumeHead \o LastTurn(h) \o ResumeTail
  ELSE Initiation

Frame(by, text) == [by |-> by, text |-> text]

Dur(id) == chunks[id].dur
\* when a started source is really audible
PlayFrom(s) == Max(s.arg, s.at)
PlayTo(s) == PlayFrom(s) + Dur(s.id)

\* ---------------------------------------------------------------- actions
\* The transport delivers one message: the whole onmessage handler, with the
\* synchronous head of handleAudioOutput (called without await at line 143).
OnMessage(m) ==
  LET skip == HandlerSkips(isPaused, m)
      audio == ~skip /\ m.audio # 0 /\ ~AudioSkips(outCtx, isPaused)
      id == Len(chunks) + 1
      waits == audio /\ outCtx = "suspended"
      ns1 == IF audio /\ ~waits
             THEN ClampStart(nextStartTime, currentTime) ELSE nextStartTime
      stop == ~skip /\ m.interrupted
  IN /\ sessionPromise = "fulfilled"
     /\ microtasks = <<>>
     /\ m.audio # 0 => Len(chunks) < MaxChunks
     /\ stop => stopCount < MaxStops
     /\ chunks' = IF audio
                  THEN Append(chunks, [dur |-> m.audio, epoch |-> stopCount])
                  ELSE chunks
     /\ resumeWaiters' = IF waits THEN Append(resumeWaiters, id) ELSE resumeWaiters
     /\ microtasks' = IF audio /\ ~waits /\ Decodes(m.audio)
                      THEN <<[k |-> "decoded", id |-> id]>> ELSE <<>>
     /\ lastMsg' = [delivered |-> TRUE, paused |-> isPaused,
                    tcMsg |-> m.content /\ m.turnComplete,
                    trPayloads |-> Payloads(m),
                    trCalls |-> TranscriptionCalls(isPaused, m),
                    tcCalls |-> TurnCompleteCalls(isPaused, m, hasTurnCb)]
     \* line 163: stopAllAudio
     /\ nextStartTime' = IF stop THEN 0 ELSE ns1
     /\ sources' = IF stop THEN {} ELSE sources
     /\ stopped' = IF stop THEN stopped \cup sources ELSE stopped
     /\ stopCount' = IF stop THEN stopCount + 1 ELSE stopCount
     /\ UNCHANGED <<isPaused, recordedBuffers, currentTime, started, outCtx>>
     /\ UNCHANGED sessVars

\* handleAudioOutput resumes after `await outputAudioContext.resume()`:
\* line 253, then the call of decodeAudioData and the await on it; a payload
\* that cannot be decoded throws there and the invocation ends.
AfterResume ==
  /\ microtasks # <<>>
  /\ Head(microtasks).k = "resumed"
  /\ nextStartTime' = ClampStart(nextStartTime, currentTime)
  /\ microtasks' = IF Decodes(Dur(Head(microtasks).id))
                   THEN Append(Tail(microtasks),
                               [k |-> "decoded", id |-> Head(microtasks).id])
                   ELSE Tail(microtasks)
  /\ UNCHANGED <<sources, isPaused, recordedBuffers, resumeWaiters, currentTime,
                 chunks, started, stopped, stopCount, lastMsg, outCtx>>
  /\ UNCHANGED sessVars

\* handleAudioOutput resumes after `await decodeAudioData(...)`: lines 257-273.
AfterDecode ==
  /\ microtasks # <<>>
  /\ Head(microtasks).k = "decoded"
  /\ LET id == Head(microtasks).id
     IN /\ recordedBuffers' = Append(recordedBuffers, id)
        /\ started' = Append(started, [id |-> id, arg |-> nextStartTime,
                                       at |-> currentTime, epoch |-> stopCount])
        /\ nextStartTime' = AdvanceStart(nextStartTime, Dur(id))
        /\ sources' = sources \cup {id}
  /\ microtasks' = Tail(microtasks)
  /\ UNCHANGED <<isPaused, resumeWaiters, currentTime, chunks, stopped,
                 stopCount, lastMsg, outCtx>>
  /\ UNCHANGED sessVars

\* source.onended, line 273: a source that played to its end leaves the set.
SourceEnded(id) ==
  /\ microtasks = <<>>
  /\ id \in sources
  /\ \E i \in 1..Len(started) : started[i].id = id /\ PlayTo(started[i]) <= currentTime
  /\ sources' = sources \ {id}
  /\ UNCHANGED <<nextStartTime, isPaused, recordedBuffers, resumeWaiters, microtasks,
                 currentTime, chunks, started, stopped, stopCount, lastMsg,
                 outCtx>>
  /\ UNCHANGED sessVars

\* setPaused, were stopAllAudio to drop what was recorded
SetPausedClearsRecording(p) ==
  /\ microtasks = <<>>
  /\ p => stopCount < MaxStops
  /\ isPaused' = p
  /\ nextStartTime' = IF p THEN 0 ELSE nextStartTime
  /\ sources' = IF p THEN {} ELSE sources
  /\ stopped' = IF p THEN stopped \cup sources ELSE stopped
  /\ stopCount' = IF p THEN stopCount + 1 ELSE stopCount
  /\ recordedBuffers' = IF p THEN <<>> ELSE recordedBuffers
  /\ UNCHANGED <<resumeWaiters, microtasks, currentTime, chunks,
                 started, lastMsg, outCtx>>
  /\ UNCHANGED sessVars

\* setPaused, were it to suspend the output context while paused
SetPausedSuspendsOutput(p) ==
  /\ microtasks = <<>>
  /\ p => stopCount < MaxStops
  /\ isPaused' = p
  /\ nextStartTime' = IF p THEN 0 ELSE nextStartTime
  /\ sources' = IF p THEN {} ELSE sources
  /\ stopped' = IF p THEN stopped \cup sources ELSE stopped
  /\ stopCount' = IF p THEN stopCount + 1 ELSE stopCount
  /\ outCtx' = IF p /\ outCtx = "running" THEN "suspended" ELSE outCtx
  /\ UNCHANGED <<recordedBuffers, resumeWaiters, microtasks, currentTime, chunks,
                 started, lastMsg>>
  /\ UNCHANGED sessVars

\* setPaused, lines 299-302, with stopAllAudio, lines 276-280.
SetPaused(p) ==
  /\ microtasks = <<>>
  /\ p => stopCount < MaxStops
  /\ isPaused' = p
  /\ nextStartTime' = IF p THEN 0 ELSE nextStartTime
  /\ sources' = IF p THEN {} ELSE sources
  /\ stopped' = IF p THEN stopped \cup sources ELSE stopped
  /\ stopCount' = IF p THEN stopCount + 1 ELSE stopCount
  /\ UNCHANGED <<recordedBuffers, resumeWaiters, microtasks, currentTime, chunks,
                 started, lastMsg, outCtx>>
  /\ UNCHANGED sessVars

\* The output clock advances while the context runs.
Tick ==
  /\ microtasks = <<>>
  /\ outCtx = "running"
  /\ currentTime < MaxClock
  /\ currentTime' = currentTime + 1
  /\ UNCHANGED <<nextStartTime, sources, isPaused, recordedBuffers, resumeWaiters,
                 microtasks, chunks, started, stopped, stopCount, lastMsg,
                 outCtx>>
  /\ UNCHANGED sessVars

\* A context created suspended starts rendering on its own: its state turns
\* "running" in a task of its own, which settles no resume() promise.
ContextStarts ==
  /\ microtasks = <<>>
  /\ outCtx = "suspended"
  /\ outCtx' = "running"
  /\ UNCHANGED <<nextStartTime, sources, isPaused, recordedBuffers, resumeWaiters,
                 microtasks, currentTime, chunks, started, stopped, stopCount,
                 lastMsg>>
  /\ UNCHANGED sessVars

\* the setMicActive calls suspended at the await named pc, as continuations
\* in call order
MicConts(pc) ==
  LET ids == SelectSeq([i \in 1..Len(micCalls) |-> i],
                       LAMBDA i : micCalls[i].pc = pc)
  IN [j \in 1..Len(ids) |-> [k |-> "mic", id |-> ids[j]]]

\* The resume() promises awaited at line 251, and those setMicActive awaits
\* at line 179, are fulfilled, in call order.
ResumeResolved ==
  /\ microtasks = <<>>
  /\ resumeWaiters # <<>> \/ MicConts("resumeOut") # <<>>
  /\ outCtx \in {"suspended", "running"}
  /\ outCtx' = "running"
  /\ microtasks' = [i \in 1..Len(resumeWaiters) |->
                      [k |-> "resumed", id |-> resumeWaiters[i]]]
                   \o MicConts("resumeOut")
  /\ resumeWaiters' = <<>>
  /\ UNCHANGED <<nextStartTime, sources, isPaused, recordedBuffers, currentTime,
                 chunks, started, stopped, stopCount, lastMsg>>
  /\ UNCHANGED sessVars

\* what the latest transport event handler did
NoTransport == [kind |-> "none", onError |-> 0, onClose |-> 0, connects |-> 0]

\* The microphone fields as the constructor leaves them, no setMicActive
\* call made yet.
MicIdle ==
  /\ isMicActive = FALSE
  /\ stream = 0
  /\ scriptProcessor = 0
  /\ micCalls = <<>>
  /\ acquired = {}
  /\ released = {}
  /\ liveProcs = {}
  /\ frameCount = 0

\* The view as mounted: no message, both accumulators empty, no callback
\* invoked yet; smartAppend not applied.
\* a result not computed yet, a result returned, an exception thrown
NotYet == [done |-> FALSE, threw |-> FALSE, value |-> <<>>]
Returned(v) == [done |-> TRUE, threw |-> FALSE, value |-> v]
Threw == [done |-> TRUE, threw |-> TRUE, value |-> <<>>]

CodecIdle == bytes = <<>> /\ base64 = NotYet /\ decoded = NotYet

WavIdle ==
  /\ buffers = <<>>
  /\ wav = NotYet

BlobIdle ==
  /\ data = <<>>
  /\ int16 = NotYet

RetryIdle ==
  /\ retryPc = "idle"
  /\ retryCount = 0
  /\ waitLeft = 0
  /\ apiCalls = <<>>
  /\ waitTimes = <<>>
  /\ rethrown = NotYet

AgainIdle ==
  /\ saAgain = NotYet

PodcastIdle ==
  /\ podView = "PodcastView"
  /\ transcriptions = <<>>
  /\ currentModelText = <<>>
  /\ closureModelText = <<>>
  /\ podEvents = <<>>
  /\ turnFragments = <<>>

SingerIdle ==
  /\ vocalFX = "Clean"
  /\ isChangingFX = FALSE
  /\ singerSessions = <<>>
  /\ exitCalls = <<>>

LifecycleIdle ==
  /\ podMounted = FALSE
  /\ podServices = <<>>
  /\ podServiceRef = 0
  /\ reconnectTimers = 0
  /\ errorCount = 0
  /\ cleanupStopped = 0
  /\ lateStarts = {}

GuruIdle ==
  /\ isPlaying = FALSE
  /\ activePartIndex = 0
  /\ currentSource = 0
  /\ guruSources = <<>>
  /\ guruTimers = {}
  /\ guruClicks = 0
  /\ guruLog = <<>>

\* every utility outside the named group is unused
UtilIdleExcept(group) ==
  /\ IF group = "codec" THEN TRUE ELSE CodecIdle
  /\ IF group = "wav" THEN TRUE ELSE WavIdle
  /\ IF group = "blob" THEN TRUE ELSE BlobIdle
  /\ IF group = "retry" THEN TRUE ELSE RetryIdle
  /\ IF group = "again" THEN TRUE ELSE AgainIdle
  /\ IF group = "podcast" THEN TRUE ELSE PodcastIdle
  /\ IF group = "singer" THEN TRUE ELSE SingerIdle
  /\ IF group = "lifecycle" THEN TRUE ELSE LifecycleIdle
  /\ IF group = "guru" THEN TRUE ELSE GuruIdle
UtilIdle == UtilIdleExcept("none")

\* an action of the named group leaves the service, the transcript and the
\* other utilities alone
OnlyTouches(group) ==
  /\ UNCHANGED serviceVars
  /\ IF group = "transcript" THEN TRUE ELSE UNCHANGED transcriptVars
  /\ IF group = "codec" THEN TRUE ELSE UNCHANGED codecVars
  /\ IF group = "wav" THEN TRUE ELSE UNCHANGED wavVars
  /\ IF group = "blob" THEN TRUE ELSE UNCHANGED blobVars
  /\ IF group = "retry" THEN TRUE ELSE UNCHANGED retryVars
  /\ IF group = "again" THEN TRUE ELSE UNCHANGED againVars
  /\ IF group = "podcast" THEN TRUE ELSE UNCHANGED podcastVars
  /\ IF group = "singer" THEN TRUE ELSE UNCHANGED singerVars
  /\ IF group = "lifecycle" THEN TRUE ELSE UNCHANGED lifecycleVars
  /\ IF group = "guru" THEN TRUE ELSE UNCHANGED guruVars

TranscriptIdle ==
  /\ view = "AdventureView"
  /\ messages = <<>>
  /\ narratorAccumulator = <<>>
  /\ userAccumulator = <<>>
  /\ events = <<>>
  /\ sinceCommit = [r \in Roles |-> <<>>]
  /\ saPrev = <<>>
  /\ saNext = <<>>
  /\ saApplied = FALSE
  /\ saResult = <<>>
ViewIdle == TranscriptIdle /\ UtilIdle

\* No stopAdventure call made yet, no transport event delivered yet.
StopIdle ==
  /\ stopPc = "idle"
  /\ stopCalls = 0
  /\ sessionClosed = FALSE
  /\ lastTransport = NoTransport

\* ------------------------------------------------- the playback behaviours
\* The session is established (startAdventure has returned, the contextual
\* message is out); the output context is as the browser created it.
InitPlayback ==
  /\ sessionPromise = "fulfilled"
  /\ outCtx \in {"suspended", "running"}
  /\ nextStartTime = 0
  /\ sources = {}
  /\ isPaused = FALSE
  /\ recordedBuffers = <<>>
  /\ hasTurnCb = TRUE
  /\ history = <<>>
  /\ contextSummary = Initiation
  /\ thenQ = <<>>
  /\ resumeWaiters = <<>>
  /\ microtasks = <<>>
  /\ currentTime = 0
  /\ wsOpen = TRUE
  /\ outbound = <<Frame("onopen", Initiation)>>
  /\ chunks = <<>>
  /\ started = <<>>
  /\ stopped = {}
  /\ stopCount = 0
  /\ lastMsg = NoMsg
  /\ sendCount = 0
  /\ inCtx = outCtx
  /\ connectCalls = 1
  /\ MicIdle
  /\ StopIdle
  /\ ViewIdle

NextPlayback ==
  \/ \E m \in PlaybackMsgs : OnMessage(m)
  \/ AfterResume
  \/ AfterDecode
  \/ \E id \in sources : SourceEnded(id)
  \/ \E p \in BOOLEAN : SetPaused(p)
  \/ Tick
  \/ ContextStarts
  \/ ResumeResolved

SpecPlayback == InitPlayback /\ [][NextPlayback]_vars

\* ------------------------------------------------- the callback behaviours
\* The same established session, with the messages that carry text,
\* transcriptions and signals; the caller may or may not have supplied
\* onTurnComplete.
InitCallbacks ==
  /\ sessionPromise = "fulfilled"
  /\ outCtx \in {"suspended", "running"}
  /\ nextStartTime = 0
  /\ sources = {}
  /\ isPaused = FALSE
  /\ recordedBuffers = <<>>
  /\ hasTurnCb \in BOOLEAN
  /\ history = <<>>
  /\ contextSummary = Initiation
  /\ thenQ = <<>>
  /\ resumeWaiters = <<>>
  /\ microtasks = <<>>
  /\ currentTime = 0
  /\ wsOpen = TRUE
  /\ outbound = <<Frame("onopen", Initiation)>>
  /\ chunks = <<>>
  /\ started = <<>>
  /\ stopped = {}
  /\ stopCount = 0
  /\ lastMsg = NoMsg
  /\ sendCount = 0
  /\ inCtx = outCtx
  /\ connectCalls = 1
  /\ MicIdle
  /\ StopIdle
  /\ ViewIdle

NextCallbacks ==
  \/ \E m \in CallbackMsgs : OnMessage(m)
  \/ \E p \in BOOLEAN : SetPaused(p)
  \/ Tick
  \/ ContextStarts

SpecCallbacks == InitCallbacks /\ [][NextCallbacks]_vars

\* --------------------------------------------------- the session's start
\* startAdventure, lines 102-171, up to its await of the connect promise.
StartAdventure(h, cb) ==
  /\ sessionPromise = "null"
  /\ microtasks = <<>>
  /\ outCtx' \in {"suspended", "running"}
  /\ inCtx' = outCtx'
  /\ contextSummary' = ContextSummary(h)
  /\ sessionPromise' = "pending"
  /\ connectCalls' = connectCalls + 1
  /\ hasTurnCb' = cb
  /\ history' = h
  /\ UNCHANGED <<thenQ, wsOpen, outbound, sendCount>>
  /\ UNCHANGED <<isMicActive, stream, scriptProcessor, micCalls, acquired,
                 released, liveProcs, frameCount>>
  /\ UNCHANGED <<stopPc, stopCalls, sessionClosed, lastTransport>>
  /\ UNCHANGED playVars
  /\ UNCHANGED viewVars

\* The transport opens: onopen, lines 133-135, registers the send of the
\* contextual message on the connect promise.  The SDK fires onopen before it
\* fulfils the promise connect() returned.
OnOpen ==
  /\ sessionPromise = "pending"
  /\ ~wsOpen
  /\ microtasks = <<>>
  /\ wsOpen' = TRUE
  /\ thenQ' = Append(thenQ, Frame("onopen", contextSummary))
  /\ UNCHANGED <<sessionPromise, contextSummary, hasTurnCb, outbound, history,
                 sendCount, outCtx>>
  /\ UNCHANGED <<micVars, stopVars>>
  /\ UNCHANGED playVars
  /\ UNCHANGED viewVars

\* The connect promise is fulfilled: its reactions run in the order in which
\* they were registered, each one a session.sendRealtimeInput.
ConnectResolved ==
  /\ sessionPromise = "pending"
  /\ wsOpen
  /\ microtasks = <<>>
  /\ sessionPromise' = "fulfilled"
  /\ outbound' = outbound \o thenQ
  /\ thenQ' = <<>>
  /\ microtasks' = IF stopPc = "awaitSession"
                   THEN <<[k |-> "stopSession", id |-> 0]>> ELSE microtasks
  /\ UNCHANGED <<contextSummary, hasTurnCb, wsOpen, history, sendCount, outCtx>>
  /\ UNCHANGED <<micVars, stopVars>>
  /\ UNCHANGED <<nextStartTime, sources, isPaused, recordedBuffers,
                 resumeWaiters, currentTime, chunks, started, stopped,
                 stopCount, lastMsg>>
  /\ UNCHANGED viewVars

\* sendTextChoice, lines 293-297.
SendTextChoice(t) ==
  /\ microtasks = <<>>
  /\ sendCount < MaxSends
  /\ sendCount' = sendCount + 1
  /\ thenQ' = IF sessionPromise = "pending"
              THEN Append(thenQ, Frame("sendTextChoice", t)) ELSE thenQ
  /\ outbound' = IF sessionPromise = "fulfilled"
                 THEN Append(outbound, Frame("sendTextChoice", t)) ELSE outbound
  /\ UNCHANGED <<sessionPromise, contextSummary, hasTurnCb, wsOpen, history, outCtx>>
  /\ UNCHANGED <<micVars, stopVars>>
  /\ UNCHANGED playVars
  /\ UNCHANGED viewVars

InitService ==
  /\ sessionPromise = "null"
  /\ outCtx = "null"
  /\ nextStartTime = 0
  /\ sources = {}
  /\ isPaused = FALSE
  /\ recordedBuffers = <<>>
  /\ hasTurnCb = FALSE
  /\ history = <<>>
  /\ contextSummary = <<>>
  /\ thenQ = <<>>
  /\ resumeWaiters = <<>>
  /\ microtasks = <<>>
  /\ currentTime = 0
  /\ wsOpen = FALSE
  /\ outbound = <<>>
  /\ chunks = <<>>
  /\ started = <<>>
  /\ stopped = {}
  /\ stopCount = 0
  /\ lastMsg = NoMsg
  /\ sendCount = 0
  /\ inCtx = "null"
  /\ connectCalls = 0
  /\ MicIdle
  /\ StopIdle
  /\ ViewIdle

\* the histories and choices of the session behaviours
SessionHistories == {h \in Histories : Len(h) <= 1 /\ \A i \in 1..Len(h) : Len(h[i].text) = 1}
ChoiceTexts == {<<"a">>, <<"b">>}
SessionMsgs == {m \in CallbackMsgs : ~m.inT /\ ~m.outT /\ ~m.interrupted}

NextSession ==
  \/ \E h \in SessionHistories, cb \in BOOLEAN : StartAdventure(h, cb)
  \/ OnOpen
  \/ ConnectResolved
  \/ \E t \in ChoiceTexts : SendTextChoice(t)
  \/ \E m \in SessionMsgs : OnMessage(m)

SpecSession == InitService /\ [][NextSession]_vars

\* startAdventure on every history, up to the contextual message going out
NextContext ==
  \/ \E h \in Histories : StartAdventure(h, TRUE)
  \/ OnOpen
  \/ ConnectResolved

SpecContext == InitService /\ [][NextContext]_vars

\* --------------------------------------------------------- the microphone
\* setMicActive, line 179: the await of outputAudioContext.resume(), or on to
\* the body at line 181
MicAfterInput(oc) == IF oc = "suspended" THEN "resumeOut" ELSE "body"
\* setMicActive, lines 177-178: the early return, or the await of
\* inputAudioContext.resume()
MicEntry(ic, oc) ==
  IF ic = "null" THEN "returned"
  ELSE IF ic = "suspended" THEN "resumeIn" ELSE MicAfterInput(oc)

\* the record of a call, where it stands
MicCall(a, pc) == [active |-> a, pc |-> pc]

\* setMicActive, lines 181-220, for call n with argument a, up to its
\* getUserMedia await or to its end: activation asks for a stream when none
\* is held; deactivation stops and drops the stream and the processor held.
MicBody(n, a, calls) ==
  IF a
  THEN /\ micCalls' = [calls EXCEPT ![n].pc = IF stream = 0 THEN "gum" ELSE "ok"]
       /\ UNCHANGED <<stream, scriptProcessor, released, liveProcs>>
  ELSE /\ micCalls' = [calls EXCEPT ![n].pc = "ok"]
       /\ released' = IF stream # 0 THEN released \cup {stream} ELSE released
       /\ stream' = 0
       /\ liveProcs' = liveProcs \ {scriptProcessor}
       /\ scriptProcessor' = 0

\* setMicActive is called, lines 175-179.
SetMicActive(a) ==
  /\ microtasks = <<>>
  /\ Len(micCalls) < MaxMicCalls
  /\ isMicActive' = a
  /\ LET n == Len(micCalls) + 1
         pc == MicEntry(inCtx, outCtx)
         calls == Append(micCalls, MicCall(a, pc))
     IN IF pc = "body"
        THEN MicBody(n, a, calls)
        ELSE /\ micCalls' = calls
             /\ UNCHANGED <<stream, scriptProcessor, released, liveProcs>>
  /\ UNCHANGED <<inCtx, acquired, frameCount>>
  /\ UNCHANGED <<sessionPromise, contextSummary, hasTurnCb, thenQ, wsOpen,
                 outbound, history, sendCount, outCtx>>
  /\ UNCHANGED stopVars
  /\ UNCHANGED playVars
  /\ UNCHANGED viewVars

\* A setMicActive call goes on after its await of a resume(), lines 178-181.
AfterMicAwait ==
  /\ microtasks # <<>>
  /\ Head(microtasks).k = "mic"
  /\ LET n == Head(microtasks).id
         pc == IF micCalls[n].pc = "resumeIn" THEN MicAfterInput(outCtx) ELSE "body"
     IN IF pc = "body"
        THEN MicBody(n, micCalls[n].active, micCalls)
        ELSE /\ micCalls' = [micCalls EXCEPT ![n].pc = pc]
             /\ UNCHANGED <<stream, scriptProcessor, released, liveProcs>>
  /\ microtasks' = Tail(microtasks)
  /\ UNCHANGED <<inCtx, isMicActive, acquired, frameCount>>
  /\ UNCHANGED <<sessionPromise, contextSummary, hasTurnCb, thenQ, wsOpen,
                 outbound, history, sendCount, outCtx>>
  /\ UNCHANGED stopVars
  /\ UNCHANGED <<nextStartTime, sources, isPaused, recordedBuffers,
                 resumeWaiters, currentTime, chunks, started, stopped,
                 stopCount, lastMsg>>
  /\ UNCHANGED viewVars

\* The input context, created suspended, starts on its own, as the output
\* context does.
InputStarts ==
  /\ microtasks = <<>>
  /\ inCtx = "suspended"
  /\ inCtx' = "running"
  /\ UNCHANGED <<isMicActive, stream, scriptProcessor, micCalls, acquired,
                 released, liveProcs, frameCount>>
  /\ UNCHANGED <<sessionPromise, contextSummary, hasTurnCb, thenQ, wsOpen,
                 outbound, history, sendCount, outCtx>>
  /\ UNCHANGED stopVars
  /\ UNCHANGED playVars
  /\ UNCHANGED viewVars

\* The resume() promises awaited at line 178 are fulfilled, in call order.
InputResumed ==
  /\ microtasks = <<>>
  /\ MicConts("resumeIn") # <<>>
  /\ inCtx \in {"suspended", "running"}
  /\ inCtx' = "running"
  /\ microtasks' = MicConts("resumeIn")
  /\ UNCHANGED <<isMicActive, stream, scriptProcessor, micCalls, acquired,
                 released, liveProcs, frameCount>>
  /\ UNCHANGED <<sessionPromise, contextSummary, hasTurnCb, thenQ, wsOpen,
                 outbound, history, sendCount, outCtx>>
  /\ UNCHANGED stopVars
  /\ UNCHANGED <<nextStartTime, sources, isPaused, recordedBuffers,
                 resumeWaiters, currentTime, chunks, started, stopped,
                 stopCount, lastMsg>>
  /\ UNCHANGED viewVars

\* The getUserMedia promise of call n settles, lines 185-209: on success the
\* stream is stored and a processor created and connected; on failure
\* isMicActive is reset and the call rejects.
GumSettles(n, ok) ==
  /\ microtasks = <<>>
  /\ n \in 1..Len(micCalls)
  /\ micCalls[n].pc = "gum"
  /\ IF ok
     THEN /\ stream' = n
          /\ acquired' = acquired \cup {n}
          /\ scriptProcessor' = n
          /\ liveProcs' = liveProcs \cup {n}
          /\ micCalls' = [micCalls EXCEPT ![n].pc = "ok"]
          /\ UNCHANGED isMicActive
     ELSE /\ isMicActive' = FALSE
          /\ micCalls' = [micCalls EXCEPT ![n].pc = "failed"]
          /\ UNCHANGED <<stream, acquired, scriptProcessor, liveProcs>>
  /\ UNCHANGED <<inCtx, released, frameCount>>
  /\ UNCHANGED <<sessionPromise, contextSummary, hasTurnCb, thenQ, wsOpen,
                 outbound, history, sendCount, outCtx>>
  /\ UNCHANGED stopVars
  /\ UNCHANGED playVars
  /\ UNCHANGED viewVars

\* onaudioprocess of a connected processor, lines 189-202.  The payload of a
\* media frame is written as the capture number of its block.
MicSendsWhilePaused(paused, active, sp) == active /\ sp \in {"pending", "fulfilled"}
MicSends(paused, active, sp) == ~paused /\ active /\ sp \in {"pending", "fulfilled"}
OnAudioProcess(p) ==
  /\ microtasks = <<>>
  /\ p \in liveProcs
  /\ inCtx = "running"
  /\ frameCount < MaxFrames
  /\ frameCount' = frameCount + 1
  /\ thenQ' = IF MicSends(isPaused, isMicActive, sessionPromise)
                  /\ sessionPromise = "pending"
              THEN Append(thenQ, Frame("mic", <<frameCount + 1>>)) ELSE thenQ
  /\ outbound' = IF MicSends(isPaused, isMicActive, sessionPromise)
                     /\ sessionPromise = "fulfilled"
                 THEN Append(outbound, Frame("mic", <<frameCount + 1>>)) ELSE outbound
  /\ UNCHANGED <<inCtx, isMicActive, stream, scriptProcessor, micCalls,
                 acquired, released, liveProcs>>
  /\ UNCHANGED <<sessionPromise, contextSummary, hasTurnCb, wsOpen, history,
                 sendCount, outCtx>>
  /\ UNCHANGED stopVars
  /\ UNCHANGED playVars
  /\ UNCHANGED viewVars

NextMic ==
  \/ StartAdventure(<<>>, TRUE)
  \/ OnOpen
  \/ ConnectResolved
  \/ \E a \in BOOLEAN : SetMicActive(a)
  \/ AfterMicAwait
  \/ InputStarts
  \/ InputResumed
  \/ ContextStarts
  \/ ResumeResolved
  \/ \E n \in 1..MaxMicCalls, ok \in BOOLEAN : GumSettles(n, ok)
  \/ \E p \in 1..MaxMicCalls : OnAudioProcess(p)
  \/ \E p \in BOOLEAN : SetPaused(p)

SpecMic == InitService /\ [][NextMic]_vars

\* ----------------------------------------------------- the session's end
\* onerror and onclose, lines 166-167: what each handler does
OnErrorReconnects == [kind |-> "error", onError |-> 1, onClose |-> 0, connects |-> 1]
OnErrorHandler == [kind |-> "error", onError |-> 1, onClose |-> 0, connects |-> 0]
OnCloseHandler == [kind |-> "close", onError |-> 0, onClose |-> 1, connects |-> 0]

\* stopAdventure, lines 289-290: close() of a context that is already closed
\* rejects, and the rejection leaves stopAdventure through its await.
AfterInputClose(oc) ==
  IF oc = "null" THEN "done"
  ELSE IF oc = "closed" THEN "rejected" ELSE "awaitOutClose"
AfterStopAllAudio(ic, oc) ==
  IF ic = "null" THEN AfterInputClose(oc)
  ELSE IF ic = "closed" THEN "rejected" ELSE "awaitInClose"

\* stopAdventure, lines 287-289, up to the first await of a close(): the
\* tracks of the stream held are stopped (this.stream keeps its value), then
\* stopAllAudio, then close() of the input context.
StopTail ==
  /\ released' = IF stream # 0 THEN released \cup {stream} ELSE released
  /\ sources' = {}
  /\ nextStartTime' = 0
  /\ stopped' = stopped \cup sources
  /\ stopCount' = stopCount + 1
  /\ stopPc' = AfterStopAllAudio(inCtx, outCtx)

\* stopAdventure is called, lines 282-284: with no sessionPromise it runs on
\* to line 287 at once; otherwise it awaits the promise, which may be
\* pending, fulfilled or rejected.
StopAdventure ==
  /\ microtasks = <<>>
  /\ stopPc \in {"idle", "done", "rejected"}
  /\ stopCalls < MaxStopCalls
  /\ stopCalls' = stopCalls + 1
  /\ \/ /\ sessionPromise = "null"
        /\ StopTail
        /\ UNCHANGED microtasks
     \/ /\ sessionPromise = "pending"
        /\ stopPc' = "awaitSession"
        /\ UNCHANGED <<released, sources, nextStartTime, stopped, stopCount,
                       microtasks>>
     \/ /\ sessionPromise = "fulfilled"
        /\ stopPc' = "awaitSession"
        /\ microtasks' = <<[k |-> "stopSession", id |-> 0]>>
        /\ UNCHANGED <<released, sources, nextStartTime, stopped, stopCount>>
     \/ /\ sessionPromise = "rejected"
        /\ stopPc' = "rejected"
        /\ UNCHANGED <<released, sources, nextStartTime, stopped, stopCount,
                       microtasks>>
  /\ UNCHANGED <<sessionPromise, contextSummary, hasTurnCb, thenQ, wsOpen,
                 outbound, history, sendCount, outCtx>>
  /\ UNCHANGED <<inCtx, isMicActive, stream, scriptProcessor, micCalls,
                 acquired, liveProcs, frameCount>>
  /\ UNCHANGED <<sessionClosed, connectCalls, lastTransport>>
  /\ UNCHANGED <<isPaused, recordedBuffers, resumeWaiters, currentTime, chunks,
                 started, lastMsg>>
  /\ UNCHANGED viewVars

\* stopAdventure after its await of the session, line 285: session.close().
AfterStopSession ==
  /\ microtasks # <<>>
  /\ Head(microtasks).k = "stopSession"
  /\ sessionClosed' = TRUE
  /\ microtasks' = Append(Tail(microtasks), [k |-> "stopClosed", id |-> 0])
  /\ UNCHANGED <<sessionPromise, contextSummary, hasTurnCb, thenQ, wsOpen,
                 outbound, history, sendCount, outCtx>>
  /\ UNCHANGED micVars
  /\ UNCHANGED <<stopPc, stopCalls, connectCalls, lastTransport>>
  /\ UNCHANGED <<nextStartTime, sources, isPaused, recordedBuffers,
                 resumeWaiters, currentTime, chunks, started, stopped,
                 stopCount, lastMsg>>
  /\ UNCHANGED viewVars

\* stopAdventure after its await of session.close(), lines 287-289.
AfterStopClosed ==
  /\ microtasks # <<>>
  /\ Head(microtasks).k = "stopClosed"
  /\ StopTail
  /\ microtasks' = Tail(microtasks)
  /\ UNCHANGED <<sessionPromise, contextSummary, hasTurnCb, thenQ, wsOpen,
                 outbound, history, sendCount, outCtx>>
  /\ UNCHANGED <<inCtx, isMicActive, stream, scriptProcessor, micCalls,
                 acquired, liveProcs, frameCount>>
  /\ UNCHANGED <<stopCalls, sessionClosed, connectCalls, lastTransport>>
  /\ UNCHANGED <<isPaused, recordedBuffers, resumeWaiters, currentTime, chunks,
                 started, lastMsg>>
  /\ UNCHANGED viewVars

\* The input context has closed: stopAdventure goes on to line 290.
InputClosed ==
  /\ microtasks = <<>>
  /\ stopPc = "awaitInClose"
  /\ inCtx' = "closed"
  /\ stopPc' = AfterInputClose(outCtx)
  /\ UNCHANGED <<sessionPromise, contextSummary, hasTurnCb, thenQ, wsOpen,
                 outbound, history, sendCount, outCtx>>
  /\ UNCHANGED <<isMicActive, stream, scriptProcessor, micCalls, acquired,
                 released, liveProcs, frameCount>>
  /\ UNCHANGED <<stopCalls, sessionClosed, connectCalls, lastTransport>>
  /\ UNCHANGED playVars
  /\ UNCHANGED viewVars

\* The output context has closed: stopAdventure returns.  The resume()
\* promises still pending on the context are never fulfilled.
OutputClosed ==
  /\ microtasks = <<>>
  /\ stopPc = "awaitOutClose"
  /\ outCtx' = "closed"
  /\ resumeWaiters' = <<>>
  /\ stopPc' = "done"
  /\ UNCHANGED <<sessionPromise, contextSummary, hasTurnCb, thenQ, wsOpen,
                 outbound, history, sendCount>>
  /\ UNCHANGED micVars
  /\ UNCHANGED <<stopCalls, sessionClosed, connectCalls, lastTransport>>
  /\ UNCHANGED <<nextStartTime, sources, isPaused, recordedBuffers, microtasks,
                 currentTime, chunks, started, stopped, stopCount, lastMsg>>
  /\ UNCHANGED viewVars

\* The connection attempt fails before the transport opens: the promise
\* connect() returned is rejected, the reactions registered on it never run,
\* and a stopAdventure awaiting it at line 284 is left through the rejection.
ConnectFailed ==
  /\ sessionPromise = "pending"
  /\ ~wsOpen
  /\ microtasks = <<>>
  /\ sessionPromise' = "rejected"
  /\ thenQ' = <<>>
  /\ stopPc' = IF stopPc = "awaitSession" THEN "rejected" ELSE stopPc
  /\ UNCHANGED <<contextSummary, hasTurnCb, wsOpen, outbound, history,
                 sendCount, outCtx>>
  /\ UNCHANGED micVars
  /\ UNCHANGED <<stopCalls, sessionClosed, connectCalls, lastTransport>>
  /\ UNCHANGED playVars
  /\ UNCHANGED viewVars

\* The transport reports an error, line 166.
TransportError ==
  /\ sessionPromise \in {"pending", "fulfilled"}
  /\ microtasks = <<>>
  /\ lastTransport' = OnErrorHandler
  /\ connectCalls' = connectCalls + OnErrorHandler.connects
  /\ UNCHANGED <<sessionPromise, contextSummary, hasTurnCb, thenQ, wsOpen,
                 outbound, history, sendCount, outCtx>>
  /\ UNCHANGED micVars
  /\ UNCHANGED <<stopPc, stopCalls, sessionClosed>>
  /\ UNCHANGED playVars
  /\ UNCHANGED viewVars

\* The transport closes, line 167.
TransportClose ==
  /\ sessionPromise \in {"pending", "fulfilled"}
  /\ microtasks = <<>>
  /\ lastTransport' = OnCloseHandler
  /\ connectCalls' = connectCalls + OnCloseHandler.connects
  /\ UNCHANGED <<sessionPromise, contextSummary, hasTurnCb, thenQ, wsOpen,
                 outbound, history, sendCount, outCtx>>
  /\ UNCHANGED micVars
  /\ UNCHANGED <<stopPc, stopCalls, sessionClosed>>
  /\ UNCHANGED playVars
  /\ UNCHANGED viewVars

\* the messages of the ending behaviours: one audio chunk, one text with
\* turnComplete
StopMsgs == {m \in Messages : /\ m.content /\ ~m.inT /\ ~m.outT /\ ~m.interrupted
                              /\ \/ m.audio = 1 /\ ~m.text /\ ~m.turnComplete
                                 \/ m.audio = 0 /\ m.text /\ m.turnComplete}

NextStop ==
  \/ StartAdventure(<<>>, TRUE)
  \/ OnOpen
  \/ ConnectResolved
  \/ ConnectFailed
  \/ SendTextChoice(<<"a">>)
  \/ \E m \in StopMsgs : OnMessage(m)
  \/ AfterResume
  \/ AfterDecode
  \/ ResumeResolved
  \/ ContextStarts
  \/ \E p \in BOOLEAN : SetPaused(p)
  \/ StopAdventure
  \/ AfterStopSession
  \/ AfterStopClosed
  \/ InputClosed
  \/ OutputClosed
  \/ TransportError
  \/ TransportClose

SpecStop == InitService /\ [][NextStop]_vars

\* the transport's events over a session's life, without playback
NextTransport ==
  \/ \E h \in SessionHistories, cb \in BOOLEAN : StartAdventure(h, cb)
  \/ OnOpen
  \/ ConnectResolved
  \/ ConnectFailed
  \/ \E t \in ChoiceTexts : SendTextChoice(t)
  \/ TransportError
  \/ TransportClose
  \/ StopAdventure
  \/ AfterStopSession
  \/ AfterStopClosed
  \/ InputClosed
  \/ OutputClosed

SpecTransport == InitService /\ [][NextTransport]_vars

\* ---------------------------------------------------- pausing a live session
\* The session is established and the microphone is active: one
\* setMicActive(true) has completed, its stream and processor are held.
InitPause ==
  /\ sessionPromise = "fulfilled"
  /\ outCtx = "running"
  /\ nextStartTime = 0
  /\ sources = {}
  /\ isPaused = FALSE
  /\ recordedBuffers = <<>>
  /\ hasTurnCb = TRUE
  /\ history = <<>>
  /\ contextSummary = Initiation
  /\ thenQ = <<>>
  /\ resumeWaiters = <<>>
  /\ microtasks = <<>>
  /\ currentTime = 0
  /\ wsOpen = TRUE
  /\ outbound = <<Frame("onopen", Initiation)>>
  /\ chunks = <<>>
  /\ started = <<>>
  /\ stopped = {}
  /\ stopCount = 0
  /\ lastMsg = NoMsg
  /\ sendCount = 0
  /\ inCtx = "running"
  /\ connectCalls = 1
  /\ isMicActive = TRUE
  /\ stream = 1
  /\ scriptProcessor = 1
  /\ micCalls = <<MicCall(TRUE, "ok")>>
  /\ acquired = {1}
  /\ released = {}
  /\ liveProcs = {1}
  /\ frameCount = 0
  /\ StopIdle
  /\ ViewIdle

NextPause ==
  \/ \E m \in StopMsgs : OnMessage(m)
  \/ AfterDecode
  \/ \E id \in sources : SourceEnded(id)
  \/ \E p \in BOOLEAN : SetPaused(p)
  \/ Tick
  \/ OnAudioProcess(1)

SpecPause == InitPause /\ [][NextPause]_vars

\* -------------------------------------------------- the recording buffer
\* every operation of the service on a live session with chunks arriving
RecordingMsgs == {m \in PlaybackMsgs : m.audio = 1}
NextRecording ==
  \/ \E m \in RecordingMsgs : OnMessage(m)
  \/ AfterDecode
  \/ \E p \in BOOLEAN : SetPaused(p)
  \/ \E a \in BOOLEAN : SetMicActive(a)
  \/ \E n \in 1..MaxMicCalls, ok \in BOOLEAN : GumSettles(n, ok)
  \/ SendTextChoice(<<"a">>)
  \/ StopAdventure
  \/ AfterStopSession
  \/ AfterStopClosed
  \/ InputClosed
  \/ OutputClosed

SpecRecording == InitPause /\ [][NextRecording]_vars

\* chunks that decode and chunks that do not, on an established session
DecodeMsgs == {m \in PlaybackMsgs : m.audio = 1 /\ ~m.interrupted} \cup DamagedMsgs
NextDecode ==
  \/ \E m \in DecodeMsgs : OnMessage(m)
  \/ AfterResume
  \/ AfterDecode
  \/ \E id \in sources : SourceEnded(id)
  \/ Tick
  \/ ContextStarts
  \/ ResumeResolved

SpecDecode == InitPlayback /\ [][NextDecode]_vars

\* ------------------------------------------------- the view's text functions
\* A string is the sequence of its characters.  The danda (U+0964) of the
\* punctuation class at line 478 is written by its name.
Glyphs == {"a", "b", " ", "\t", "."}
Strs == SeqsUpTo(Glyphs, MaxStr)
Whitespace == {" ", "\t", "\n", "\r"}
Punctuation == {"danda", ".", ",", "!", "?"}

\* String.prototype.trim, endsWith, startsWith
RECURSIVE TrimStart(_)
TrimStart(s) ==
  IF s # <<>> /\ Head(s) \in Whitespace THEN TrimStart(Tail(s)) ELSE s
RECURSIVE TrimEnd(_)
TrimEnd(s) ==
  IF s # <<>> /\ s[Len(s)] \in Whitespace
  THEN TrimEnd(SubSeq(s, 1, Len(s) - 1)) ELSE s
Trim(s) == TrimEnd(TrimStart(s))
EndsWith(s, t) ==
  Len(t) <= Len(s) /\ SubSeq(s, Len(s) - Len(t) + 1, Len(s)) = t
StartsWith(s, t) == Len(t) <= Len(s) /\ SubSeq(s, 1, Len(t)) = t

\* smartAppend, lines 472-477: the overlap lengths the loop would accept; it
\* scans downwards and returns at the first, the largest
Overlaps(cleanPrev, cleanNext) ==
  {n \in 2..(IF Len(cleanPrev) <= Len(cleanNext)
             THEN Len(cleanPrev) ELSE Len(cleanNext)) :
     SubSeq(cleanPrev, Len(cleanPrev) - n + 1, Len(cleanPrev))
       = SubSeq(cleanNext, 1, n)}
MaxOf(S) == CHOOSE n \in S : \A k \in S : k <= n

\* smartAppend, line 478
NeedsSpace(prev, next) ==
  /\ ~EndsWith(prev, <<" ">>)
  /\ ~StartsWith(next, <<" ">>)
  /\ ~(Trim(next) # <<>> /\ Trim(next)[1] \in Punctuation)

\* smartAppend without the test of line 471
smartAppendNoSuffixTest(prev, next) ==
  IF prev = <<>> THEN Trim(next)
  ELSE IF next = <<>> THEN prev
  ELSE LET cleanPrev == Trim(prev)
           cleanNext == Trim(next)
           ov == Overlaps(cleanPrev, cleanNext)
       IN IF ov # {}
          THEN cleanPrev \o SubSeq(cleanNext, MaxOf(ov) + 1, Len(cleanNext))
          ELSE prev \o (IF NeedsSpace(prev, next) THEN <<" ">> ELSE <<>>) \o next

\* smartAppend, were its loop to run down to an overlap of one character
smartAppendSplicesOne(prev, next) ==
  IF prev = <<>> THEN Trim(next)
  ELSE IF next = <<>> THEN prev
  ELSE LET cleanPrev == Trim(prev)
           cleanNext == Trim(next)
           ov == Overlaps(cleanPrev, cleanNext) \cup
                 {n \in {1} : /\ cleanPrev # <<>> /\ cleanNext # <<>>
                              /\ cleanPrev[Len(cleanPrev)] = cleanNext[1]}
       IN IF EndsWith(cleanPrev, cleanNext) THEN prev
          ELSE IF ov # {}
          THEN cleanPrev \o SubSeq(cleanNext, MaxOf(ov) + 1, Len(cleanNext))
          ELSE prev \o (IF NeedsSpace(prev, next) THEN <<" ">> ELSE <<>>) \o next

\* smartAppend, were it to insert the space whatever the neighbours
smartAppendAlwaysSpaces(prev, next) ==
  IF prev = <<>> THEN Trim(next)
  ELSE IF next = <<>> THEN prev
  ELSE LET cleanPrev == Trim(prev)
           cleanNext == Trim(next)
           ov == Overlaps(cleanPrev, cleanNext)
       IN IF EndsWith(cleanPrev, cleanNext) THEN prev
          ELSE IF ov # {}
          THEN cleanPrev \o SubSeq(cleanNext, MaxOf(ov) + 1, Len(cleanNext))
          ELSE prev \o <<" ">> \o next

\* smartAppend, lines 466-480
smartAppend(prev, next) ==
  IF prev = <<>> THEN Trim(next)
  ELSE IF next = <<>> THEN prev
  ELSE LET cleanPrev == Trim(prev)
           cleanNext == Trim(next)
           ov == Overlaps(cleanPrev, cleanNext)
       IN IF EndsWith(cleanPrev, cleanNext) THEN prev
          ELSE IF ov # {}
          THEN cleanPrev \o SubSeq(cleanNext, MaxOf(ov) + 1, Len(cleanNext))
          ELSE prev \o (IF NeedsSpace(prev, next) THEN <<" ">> ELSE <<>>) \o next

\* the worked examples
Hi == <<"H", "i">>
Hello == <<"H", "e", "l", "l", "o">>
HelloWor == <<"H", "e", "l", "l", "o", " ", "w", "o", "r">>
HelloWorld == <<"H", "e", "l", "l", "o", " ", "w", "o", "r", "l", "d">>
World == <<"w", "o", "r", "l", "d">>
There == <<"t", "h", "e", "r", "e">>
Examples == {<<<<>>, Hi>>, <<Hi, <<>>>>, <<HelloWorld, World>>,
             <<HelloWor, World>>, <<Hello, There>>}

\* One application of smartAppend, to any two short strings and to the
\* worked examples.
InitSmartAppend ==
  /\ sessionPromise = "null"
  /\ outCtx = "null"
  /\ nextStartTime = 0
  /\ sources = {}
  /\ isPaused = FALSE
  /\ recordedBuffers = <<>>
  /\ hasTurnCb = FALSE
  /\ history = <<>>
  /\ contextSummary = <<>>
  /\ thenQ = <<>>
  /\ resumeWaiters = <<>>
  /\ microtasks = <<>>
  /\ currentTime = 0
  /\ wsOpen = FALSE
  /\ outbound = <<>>
  /\ chunks = <<>>
  /\ started = <<>>
  /\ stopped = {}
  /\ stopCount = 0
  /\ lastMsg = NoMsg
  /\ sendCount = 0
  /\ inCtx = "null"
  /\ connectCalls = 0
  /\ MicIdle
  /\ StopIdle
  /\ view = "AdventureView"
  /\ messages = <<>>
  /\ narratorAccumulator = <<>>
  /\ userAccumulator = <<>>
  /\ events = <<>>
  /\ sinceCommit = [r \in Roles |-> <<>>]
  /\ \E pair \in (Strs \X Strs) \cup Examples :
        saPrev = pair[1] /\ saNext = pair[2]
  /\ saApplied = FALSE
  /\ saResult = <<>>
  /\ UtilIdle

ApplySmartAppend ==
  /\ ~saApplied
  /\ saResult' = smartAppend(saPrev, saNext)
  /\ saApplied' = TRUE
  /\ UNCHANGED <<saPrev, saNext, view, messages, narratorAccumulator,
                 userAccumulator, events, sinceCommit>>
  /\ OnlyTouches("transcript")

NextSmartAppend == ApplySmartAppend

SpecSmartAppend == InitSmartAppend /\ [][NextSmartAppend]_vars

\* The same fragment handed to smartAppend once more, as a stream that
\* repeats a fragment does: smartAppend(accumulator, next) with the
\* accumulator the first application produced.
ApplySmartAppendAgain ==
  /\ saApplied
  /\ ~saAgain.done
  /\ saAgain' = Returned(smartAppend(saResult, saNext))
  /\ UNCHANGED transcriptVars
  /\ OnlyTouches("again")

NextSmartAppendTwice == ApplySmartAppend \/ ApplySmartAppendAgain

SpecSmartAppendTwice == InitSmartAppend /\ [][NextSmartAppendTwice]_vars

\* -------------------------------------------------- the transcript reconciler
\* The callbacks a view hands to startAdventure: onTranscriptionUpdate and
\* onTurnComplete of AdventureView (lines 543-608) and of LanguageTutorView
\* (part_002, lines 176-222).
MaxEvents == 3
Views == {"AdventureView", "LanguageTutorView"}

\* A replace(re, '') with re = open [^close]* close, global: scanning from the
\* left, an opening mark with a closing mark after it is removed together
\* with everything up to the first closing mark; an opening mark with no
\* closing mark after it stays.
RECURSIVE RemoveGroups(_, _, _)
RemoveGroups(s, open, close) ==
  IF s = <<>> THEN <<>>
  ELSE IF s[1] = open /\ \E j \in 2..Len(s) : s[j] = close
  THEN LET j == CHOOSE k \in 2..Len(s) :
                  s[k] = close /\ \A h \in 2..(k - 1) : s[h] # close
       IN RemoveGroups(SubSeq(s, j + 1, Len(s)), open, close)
  ELSE <<s[1]>> \o RemoveGroups(Tail(s), open, close)

\* replace(/\s+/g, ' '): every run of whitespace becomes one space
RECURSIVE CollapseSpaces(_)
CollapseSpaces(s) ==
  IF s = <<>> THEN <<>>
  ELSE IF s[1] \in Whitespace
  THEN <<" ">> \o CollapseSpaces(TrimStart(Tail(s)))
  ELSE <<s[1]>> \o CollapseSpaces(Tail(s))

\* AdventureView, lines 458-464
cleanText(text) ==
  Trim(CollapseSpaces(RemoveGroups(RemoveGroups(text, "(", ")"), "[", "]")))

\* The fragment texts delivered: nothing, words, a word repeating the end of
\* another, and a word after a parenthesised direction.
Fragments == {<<>>, <<"a">>, <<"b">>, <<"a", "b">>, <<"(", "a", ")", "b">>}

TurnComplete == [role |-> "turnComplete", text |-> <<>>, isFinal |-> TRUE]
TranscriptionEvent(role, text, isFinal) ==
  [role |-> role, text |-> text, isFinal |-> isFinal]
Message(role, text) == [role |-> role, text |-> text]

\* The text handed to smartAppend: AdventureView line 545 cleans it,
\* LanguageTutorView (part_002 lines 187, 200) passes it as received.
Processed(v, text) == IF v = "AdventureView" THEN cleanText(text) ELSE text

\* The setMessages updater: AdventureView returns prev when its last entry
\* has the same role and text (alreadyPresent, lines 553-554, 568-569,
\* 585-586, 601-602); LanguageTutorView always appends.
Committed(v, prev, role, text) ==
  IF /\ v = "AdventureView"
     /\ Len(prev) > 0
     /\ prev[Len(prev)] = Message(role, text)
  THEN prev
  ELSE Append(prev, Message(role, text))

\* the accumulator is left holding the committed text
AfterCommitKeeps(acc) == acc
\* accumulator.current = '' after a commit (lines 557, 573, 590, 606)
AfterCommit(acc) == <<>>

InitReconciler ==
  /\ sessionPromise = "null"
  /\ outCtx = "null"
  /\ nextStartTime = 0
  /\ sources = {}
  /\ isPaused = FALSE
  /\ recordedBuffers = <<>>
  /\ hasTurnCb = FALSE
  /\ history = <<>>
  /\ contextSummary = <<>>
  /\ thenQ = <<>>
  /\ resumeWaiters = <<>>
  /\ microtasks = <<>>
  /\ currentTime = 0
  /\ wsOpen = FALSE
  /\ outbound = <<>>
  /\ chunks = <<>>
  /\ started = <<>>
  /\ stopped = {}
  /\ stopCount = 0
  /\ lastMsg = NoMsg
  /\ sendCount = 0
  /\ inCtx = "null"
  /\ connectCalls = 0
  /\ MicIdle
  /\ StopIdle
  /\ view \in Views
  /\ messages = <<>>
  /\ narratorAccumulator = <<>>
  /\ userAccumulator = <<>>
  /\ events = <<>>
  /\ sinceCommit = [r \in Roles |-> <<>>]
  /\ saPrev = <<>>
  /\ saNext = <<>>
  /\ saApplied = FALSE
  /\ saResult = <<>>
  /\ UtilIdle

\* onTranscriptionUpdate(role, text, isFinal)
OnTranscriptionUpdate(role, text, isFinal) ==
  /\ Len(events) < MaxEvents
  /\ events' = Append(events, TranscriptionEvent(role, text, isFinal))
  /\ IF text = <<>> /\ ~isFinal
     THEN UNCHANGED <<messages, narratorAccumulator, userAccumulator,
                      sinceCommit>>
     ELSE LET processedText == Processed(view, text)
              forced == role = "model" /\ Trim(userAccumulator) # <<>>
              afterForce ==
                IF forced
                THEN Committed(view, messages, "user", Trim(userAccumulator))
                ELSE messages
              acc == smartAppend(IF role = "model" THEN narratorAccumulator
                                 ELSE userAccumulator, processedText)
              finalText == Trim(acc)
              commits == isFinal /\ finalText # <<>>
              left == IF commits THEN AfterCommit(acc) ELSE acc
          IN /\ messages' = IF commits
                            THEN Committed(view, afterForce, role, finalText)
                            ELSE afterForce
             /\ narratorAccumulator' =
                  IF role = "model" THEN left ELSE narratorAccumulator
             /\ userAccumulator' =
                  IF role = "user" THEN left
                  ELSE IF forced THEN AfterCommit(userAccumulator)
                  ELSE userAccumulator
             /\ sinceCommit' =
                  [r \in Roles |->
                     IF r = role
                     THEN IF commits THEN <<>>
                          ELSE Append(sinceCommit[r], text)
                     ELSE IF forced THEN <<>> ELSE sinceCommit[r]]
  /\ UNCHANGED <<view, saPrev, saNext, saApplied, saResult>>
  /\ OnlyTouches("transcript")

\* onTurnComplete()
OnTurnComplete ==
  /\ Len(events) < MaxEvents
  /\ events' = Append(events, TurnComplete)
  /\ LET finalNarratorText == Trim(narratorAccumulator)
     IN IF finalNarratorText # <<>>
        THEN /\ messages' =
                  Committed(view, messages, "model", finalNarratorText)
             /\ narratorAccumulator' = AfterCommit(narratorAccumulator)
             /\ sinceCommit' = [sinceCommit EXCEPT !["model"] = <<>>]
        ELSE UNCHANGED <<messages, narratorAccumulator, sinceCommit>>
  /\ UNCHANGED <<view, userAccumulator, saPrev, saNext, saApplied, saResult>>
  /\ OnlyTouches("transcript")

NextReconciler ==
  \/ \E role \in Roles, text \in Fragments, isFinal \in BOOLEAN :
        OnTranscriptionUpdate(role, text, isFinal)
  \/ OnTurnComplete

SpecReconciler == InitReconciler /\ [][NextReconciler]_vars

\* --------------------------------------------------------- encode / decode
\* src/utils/audioUtils.ts, lines 2-19.  A binary string is the sequence of
\* its code units; a base64 string is the sequence of the values 0..63 of
\* its characters, with Pad for "=".
MaxBytes == 3
ByteValues == {0, 1, 127, 128, 255}
Pad == 64

\* No service constructed: the state in which the utilities are exercised.
ServiceNull ==
  /\ sessionPromise = "null"
  /\ outCtx = "null"
  /\ nextStartTime = 0
  /\ sources = {}
  /\ isPaused = FALSE
  /\ recordedBuffers = <<>>
  /\ hasTurnCb = FALSE
  /\ history = <<>>
  /\ contextSummary = <<>>
  /\ thenQ = <<>>
  /\ resumeWaiters = <<>>
  /\ microtasks = <<>>
  /\ currentTime = 0
  /\ wsOpen = FALSE
  /\ outbound = <<>>
  /\ chunks = <<>>
  /\ started = <<>>
  /\ stopped = {}
  /\ stopCount = 0
  /\ lastMsg = NoMsg
  /\ sendCount = 0
  /\ inCtx = "null"
  /\ connectCalls = 0
  /\ MicIdle
  /\ StopIdle

\* btoa that leaves out a final group of fewer than three bytes
RECURSIVE btoaWholeGroupsOnly(_)
btoaWholeGroupsOnly(binary) ==
  IF Len(binary) < 3 THEN <<>>
  ELSE <<binary[1] \div 4,
         (binary[1] % 4) * 16 + binary[2] \div 16,
         (binary[2] % 16) * 4 + binary[3] \div 64,
         binary[3] % 64>>
       \o btoaWholeGroupsOnly(SubSeq(binary, 4, Len(binary)))
\* btoa: three bytes give four characters; a final group of one or two
\* bytes is zero-filled and padded to four characters.
RECURSIVE btoa(_)
btoa(binary) ==
  IF binary = <<>> THEN <<>>
  ELSE IF Len(binary) = 1
  THEN <<binary[1] \div 4, (binary[1] % 4) * 16, Pad, Pad>>
  ELSE IF Len(binary) = 2
  THEN <<binary[1] \div 4,
         (binary[1] % 4) * 16 + binary[2] \div 16,
         (binary[2] % 16) * 4,
         Pad>>
  ELSE <<binary[1] \div 4,
         (binary[1] % 4) * 16 + binary[2] \div 16,
         (binary[2] % 16) * 4 + binary[3] \div 64,
         binary[3] % 64>>
       \o btoa(SubSeq(binary, 4, Len(binary)))

\* atob, after the padding is removed: four characters give three bytes,
\* three give two, two give one; the bits left over are discarded.
RECURSIVE FromSextets(_)
FromSextets(d) ==
  IF Len(d) < 2 THEN <<>>
  ELSE IF Len(d) = 2
  THEN <<d[1] * 4 + d[2] \div 16>>
  ELSE IF Len(d) = 3
  THEN <<d[1] * 4 + d[2] \div 16, (d[2] % 16) * 16 + d[3] \div 4>>
  ELSE <<d[1] * 4 + d[2] \div 16,
         (d[2] % 16) * 16 + d[3] \div 4,
         (d[3] % 4) * 64 + d[4]>>
       \o FromSextets(SubSeq(d, 5, Len(d)))

\* atob: one or two trailing "=" are removed when the length is a multiple
\* of four; a length of 1 modulo 4, or "=" anywhere else, throws.
atob(s) ==
  LET n == Len(s)
      pads == IF n > 0 /\ n % 4 = 0
              THEN IF s[n] = Pad /\ s[n - 1] = Pad THEN 2
                   ELSE IF s[n] = Pad THEN 1 ELSE 0
              ELSE 0
      d == SubSeq(s, 1, n - pads)
  IN IF Len(d) % 4 = 1 \/ \E i \in 1..Len(d) : d[i] = Pad
     THEN Threw
     ELSE Returned(FromSextets(d))

\* String.fromCharCode(bytes[i]) for each i, lines 5-7: the binary string
fromCharCode(b) == [i \in 1..Len(b) |-> b[i]]
\* bytes[i] = binaryString.charCodeAt(i), lines 15-17: a Uint8Array element
\* keeps the value modulo 256
charCodes(bin) == [i \in 1..Len(bin) |-> bin[i] % 256]

encode(b) == Returned(btoa(fromCharCode(b)))
decode(s) ==
  IF atob(s).threw THEN Threw ELSE Returned(charCodes(atob(s).value))

InitCodec ==
  /\ ServiceNull
  /\ TranscriptIdle
  /\ UtilIdleExcept("codec")
  /\ bytes \in SeqsUpTo(ByteValues, MaxBytes)
  /\ base64 = NotYet
  /\ decoded = NotYet

ApplyEncode ==
  /\ ~base64.done
  /\ base64' = encode(bytes)
  /\ UNCHANGED <<bytes, decoded>>
  /\ OnlyTouches("codec")

ApplyDecode ==
  /\ base64.done /\ ~base64.threw
  /\ ~decoded.done
  /\ decoded' = decode(base64.value)
  /\ UNCHANGED <<bytes, base64>>
  /\ OnlyTouches("codec")

NextCodec == ApplyEncode \/ ApplyDecode

SpecCodec == InitCodec /\ [][NextCodec]_vars

\* ------------------------------------------------- fastAudioBuffersToWav
\* src/unnamed/part_008, lines 44-92.  The Blob returned is described by
\* its size, whether it starts with a RIFF header, the two size fields of
\* that header and the offset at which the sample loop stopped writing.  The
\* sizes here are far below 2^32, so setUint32 stores them as they are.
MaxBuffers == 3
FrameCounts == {1, 2, 100, 150, 200}
ChannelCounts == {1, 2}
AudioBuffers == [numberOfChannels : ChannelCounts, length : FrameCounts]

EmptyBlob ==
  [size |-> 0, hasHeader |-> FALSE, riffSize |-> 0, dataSize |-> 0,
   end |-> 0]

\* lines 49-50
RECURSIVE TotalFrames(_)
TotalFrames(bs) ==
  IF bs = <<>> THEN 0 ELSE bs[1].length + TotalFrames(Tail(bs))

\* lines 81-89: one 16-bit write per sample of channel 0 of every buffer
RECURSIVE OffsetAfter(_, _)
OffsetAfter(offset, bs) ==
  IF bs = <<>> THEN offset
  ELSE OffsetAfter(offset + 2 * bs[1].length, Tail(bs))

\* the RIFF size field written as the size of the whole file
fastAudioBuffersToWavRiffWhole(bs) ==
  IF Len(bs) = 0 THEN Returned(EmptyBlob)
  ELSE LET numChannels == bs[1].numberOfChannels
           totalFrames == TotalFrames(bs)
           blockAlign == numChannels * 2
           dataSize == totalFrames * blockAlign
           totalSize == 44 + dataSize
       IN Returned([size |-> totalSize, hasHeader |-> TRUE,
                    riffSize |-> totalSize,
                    dataSize |-> dataSize,
                    end |-> OffsetAfter(44, bs)])
fastAudioBuffersToWav(bs) ==
  IF Len(bs) = 0 THEN Returned(EmptyBlob)
  ELSE LET numChannels == bs[1].numberOfChannels
           totalFrames == TotalFrames(bs)
           bytesPerSample == 2
           blockAlign == numChannels * bytesPerSample
           dataSize == totalFrames * blockAlign
           headerSize == 44
           totalSize == headerSize + dataSize
       IN Returned([size |-> totalSize, hasHeader |-> TRUE,
                    riffSize |-> totalSize - 8,
                    dataSize |-> dataSize,
                    end |-> OffsetAfter(44, bs)])

Mono(n) == [numberOfChannels |-> 1, length |-> n]
ThreeBuffers == <<Mono(100), Mono(200), Mono(150)>>

InitWav ==
  /\ ServiceNull
  /\ TranscriptIdle
  /\ UtilIdleExcept("wav")
  /\ buffers \in SeqsUpTo(AudioBuffers, MaxBuffers) \cup {ThreeBuffers}
  /\ wav = NotYet

ApplyWav ==
  /\ ~wav.done
  /\ wav' = fastAudioBuffersToWav(buffers)
  /\ UNCHANGED buffers
  /\ OnlyTouches("wav")

NextWav == ApplyWav

SpecWav == InitWav /\ [][NextWav]_vars

\* -------------------------------------------------------------- createBlob
\* src/services/geminiLiveService.ts, lines 223-233.  A sample is a multiple
\* of 1/SampleUnit, which a Float32Array holds exactly.
MaxSamples == 2
SampleUnit == 4
Samples == {-8, -5, -4, -3, -2, -1, 0, 1, 2, 3, 4, 5, 8}

\* Math.max(-1, Math.min(1, x)), line 227
Clamp(x) ==
  IF x > SampleUnit THEN SampleUnit
  ELSE IF x < -SampleUnit THEN -SampleUnit ELSE x

\* The store into an Int16Array element: the fraction is dropped (towards
\* zero) and the integer is taken modulo 2^16 into -32768..32767.  The
\* argument is the number n / SampleUnit.
ToInt16(n) ==
  LET t == IF n >= 0 THEN n \div SampleUnit ELSE -((-n) \div SampleUnit)
      w == t % 65536
  IN IF w >= 32768 THEN w - 65536 ELSE w

\* line 227: int16[i] = Math.max(-1, Math.min(1, data[i])) * 32767
createBlobInt16(d) == [i \in 1..Len(d) |-> ToInt16(Clamp(d[i]) * 32767)]

InitBlob ==
  /\ ServiceNull
  /\ TranscriptIdle
  /\ UtilIdleExcept("blob")
  /\ data \in SeqsUpTo(Samples, MaxSamples)
  /\ int16 = NotYet

CreateBlob ==
  /\ ~int16.done
  /\ int16' = Returned(createBlobInt16(data))
  /\ UNCHANGED data
  /\ OnlyTouches("blob")

NextBlob == CreateBlob

SpecBlob == InitBlob /\ [][NextBlob]_vars

\* ----------------------------------------------------------- callWithRetry
\* src/components/StoryGuruView.tsx, lines 51-68 (the same function in
\* StoryOrchestratorView.tsx, lines 53-70).  The recursion is a tail call,
\* so the innermost invocation's retryCount is the only frame that matters;
\* what it returns or throws is what the outermost call returns or throws.
MaxRetries == 5
BaseWait == 20
WaitStep == 10

\* err.message: absent, or a text
NoMessage == [defined |-> FALSE, text |-> <<>>]
MessageOf(text) == [defined |-> TRUE, text |-> text]
ErrorMessages ==
  {NoMessage,
   MessageOf(<<"4", "2", "9">>),
   MessageOf(<<"q", "u", "o", "t", "a">>),
   MessageOf(<<"Q", "u", "o", "t", "a">>),
   MessageOf(<<"5", "0", "0">>)}
Ok == [ok |-> TRUE, message |-> NoMessage]
Failed(message) == [ok |-> FALSE, message |-> message]
Outcomes == {Ok} \cup {Failed(m) : m \in ErrorMessages}

\* String.prototype.includes
Includes(text, part) ==
  \E i \in 0..(Len(text) - Len(part)) :
     SubSeq(text, i + 1, i + Len(part)) = part
\* String.prototype.toLowerCase, on the letters that occur
LowerChar(c) == IF c = "Q" THEN "q" ELSE c
toLowerCase(text) == [i \in 1..Len(text) |-> LowerChar(text[i])]

\* line 55; on an absent message both ?. chains give undefined
isQuotaError(err) ==
  /\ err.message.defined
  /\ \/ Includes(err.message.text, <<"4", "2", "9">>)
     \/ Includes(toLowerCase(err.message.text), <<"q", "u", "o", "t", "a">>)

\* the same wait before every retry
waitTimeFlat(count) == BaseWait
\* line 57
waitTime(count) == BaseWait + (count * WaitStep)

InitRetry ==
  /\ ServiceNull
  /\ TranscriptIdle
  /\ UtilIdleExcept("retry")
  /\ retryPc = "idle"
  /\ retryCount = 0
  /\ waitLeft = 0
  /\ apiCalls = <<>>
  /\ waitTimes = <<>>
  /\ rethrown = NotYet

\* callWithRetry(apiCall): retryCount defaults to 0 and apiCall is invoked
CallWithRetry ==
  /\ retryPc = "idle"
  /\ retryPc' = "calling"
  /\ retryCount' = 0
  /\ UNCHANGED <<waitLeft, apiCalls, waitTimes, rethrown>>
  /\ OnlyTouches("retry")

\* the promise apiCall() returned settles: lines 53-66 up to the first
\* await delay
ApiCallSettles(outcome) ==
  /\ retryPc = "calling"
  /\ apiCalls' = Append(apiCalls, outcome)
  /\ IF outcome.ok
     THEN /\ retryPc' = "returned"
          /\ UNCHANGED <<waitLeft, waitTimes, rethrown>>
     ELSE IF isQuotaError(outcome) /\ retryCount < MaxRetries
     THEN /\ retryPc' = "waiting"
          /\ waitLeft' = waitTime(retryCount)
          /\ waitTimes' = Append(waitTimes, waitTime(retryCount))
          /\ UNCHANGED rethrown
     ELSE /\ retryPc' = "thrown"
          /\ rethrown' = Returned(outcome)
          /\ UNCHANGED <<waitLeft, waitTimes>>
  /\ UNCHANGED retryCount
  /\ OnlyTouches("retry")

\* one delay(1000) of the loop of lines 59-62 fires; after the last one the
\* recursive call of line 64 invokes apiCall again
DelayFires ==
  /\ retryPc = "waiting"
  /\ waitLeft' = waitLeft - 1
  /\ IF waitLeft' > 0
     THEN UNCHANGED <<retryPc, retryCount>>
     ELSE /\ retryPc' = "calling"
          /\ retryCount' = retryCount + 1
  /\ UNCHANGED <<apiCalls, waitTimes, rethrown>>
  /\ OnlyTouches("retry")

NextRetry ==
  \/ CallWithRetry
  \/ \E outcome \in Outcomes : ApiCallSettles(outcome)
  \/ DelayFires

\* every apiCall invocation settles and every timer fires
SpecRetry == InitRetry /\ [][NextRetry]_vars /\ WF_vars(NextRetry)

\* --------------------------------- PodcastView / MovieExplainerView transcript
\* onTranscriptionUpdate of PodcastView (src/unnamed/part_004, lines 514-532)
\* and of MovieExplainerView (src/components/MovieExplainerView.tsx, lines
\* 194-212), the same text.  The callbacks are created by initService, which
\* the mount effect calls from the first render; every later initService is
\* called from a timer that callback set, so the currentModelText their
\* closure reads is always the one of the first render.
PodViews == {"PodcastView", "MovieExplainerView"}
WordChars == {"a", "b"}

\* replace(/^[\w\u0900-\u097F]+[:]\s*/, ''): a leading run of word
\* characters followed by a colon is removed, with the whitespace after it
StripLabel(s) ==
  LET run == {n \in 1..Len(s) : \A i \in 1..n : s[i] \in WordChars}
      n == IF run = {} THEN 0 ELSE MaxOf(run)
  IN IF n >= 1 /\ n < Len(s) /\ s[n + 1] = ":"
     THEN TrimStart(SubSeq(s, n + 2, Len(s)))
     ELSE s

\* cleanText of part_004 lines 456-463
podCleanText(text) ==
  Trim(CollapseSpaces(StripLabel(
         RemoveGroups(RemoveGroups(text, "(", ")"), "[", "]"))))

PodFragments ==
  {<<>>, <<"a">>, <<"b">>, <<"a", "b">>, <<"a", ":", "b">>, <<"(", "a", ")">>}

InitPodcast ==
  /\ ServiceNull
  /\ TranscriptIdle
  /\ UtilIdleExcept("podcast")
  /\ podView \in PodViews
  /\ transcriptions = <<>>
  /\ currentModelText = <<>>
  /\ closureModelText = <<>>
  /\ podEvents = <<>>
  /\ turnFragments = <<>>

\* onTranscriptionUpdate(role, text, isFinal)
PodOnTranscriptionUpdate(role, text, isFinal) ==
  /\ Len(podEvents) < MaxEvents
  /\ podEvents' = Append(podEvents, TranscriptionEvent(role, text, isFinal))
  /\ LET processedText == podCleanText(text)
     IN IF \/ text = <<>> /\ ~isFinal
           \/ processedText = <<>> /\ ~isFinal
           \/ role # "model"
        THEN UNCHANGED <<transcriptions, currentModelText, turnFragments>>
        ELSE IF isFinal
        THEN LET fullText ==
                   Trim(CollapseSpaces(
                          smartAppend(closureModelText, processedText)))
             IN /\ transcriptions' =
                     IF /\ Len(transcriptions) > 0
                        /\ transcriptions[Len(transcriptions)]
                             = Message("model", fullText)
                     THEN transcriptions
                     ELSE Append(transcriptions, Message("model", fullText))
                /\ currentModelText' = <<>>
                /\ turnFragments' = <<>>
        ELSE /\ currentModelText' =
                  smartAppend(currentModelText, processedText)
             /\ turnFragments' = Append(turnFragments, processedText)
             /\ UNCHANGED transcriptions
  /\ UNCHANGED <<podView, closureModelText>>
  /\ OnlyTouches("podcast")

NextPodcast ==
  \E role \in Roles, text \in PodFragments, isFinal \in BOOLEAN :
     PodOnTranscriptionUpdate(role, text, isFinal)

SpecPodcast == InitPodcast /\ [][NextPodcast]_vars

\* ---------------------------------------------------------------- SingerView
\* src/components/SingerView.tsx: initService (lines 86-150), the mount
\* effect (152-166) and handleFXChange (171-179).  A service is "fetching"
\* while initService awaits fetchSongData, "live" once startAdventure was
\* called, "closing" once stopAdventure reached session.close(), "closed"
\* once its close event was delivered.
MaxFXChanges == 2
VocalFXs == {"Clean", "Reverb", "Robot"}
SingerSession(phase, forFX) == [phase |-> phase, forFX |-> forFX]

\* the state after the mount effect ran initService(config, vocalFX) up to
\* its first await
InitSinger ==
  /\ ServiceNull
  /\ TranscriptIdle
  /\ UtilIdleExcept("singer")
  /\ vocalFX = "Clean"
  /\ isChangingFX = FALSE
  /\ singerSessions = <<SingerSession("fetching", FALSE)>>
  /\ exitCalls = <<>>

\* stopAdventure on a service (geminiLiveService.ts lines 282-291): a
\* session that exists is closed; a service still fetching has no
\* sessionPromise, nothing is closed, and startAdventure runs later all the
\* same
StoppedForFX(session) ==
  IF session.phase = "live" THEN SingerSession("closing", TRUE) ELSE session

\* handleFXChange(fx), with initService up to its first await: the guard is
\* set (line 173), stopAdventure is called on the current service, and
\* initService resets the guard (line 88) and creates the next service
HandleFXChange(fx) ==
  /\ Len(singerSessions) <= MaxFXChanges
  /\ fx # vocalFX
  /\ vocalFX' = fx
  /\ LET guardSet == TRUE              \* line 173
         guardReset == FALSE           \* line 88, before initService awaits
         writes == <<guardSet, guardReset>>
     IN isChangingFX' = writes[Len(writes)]
  /\ singerSessions' =
       Append([singerSessions EXCEPT ![Len(singerSessions)] =
                 StoppedForFX(singerSessions[Len(singerSessions)])],
              SingerSession("fetching", FALSE))
  /\ UNCHANGED exitCalls
  /\ OnlyTouches("singer")

\* fetchSongData resolves: initService goes on to startAdventure
SongDataFetched(i) ==
  /\ singerSessions[i].phase = "fetching"
  /\ singerSessions' =
       [singerSessions EXCEPT ![i] = SingerSession("live", FALSE)]
  /\ UNCHANGED <<vocalFX, isChangingFX, exitCalls>>
  /\ OnlyTouches("singer")

\* the close event of a session, closed by stopAdventure or by the remote
\* end: onClose, lines 143-148
SingerOnClose(i) ==
  /\ singerSessions[i].phase \in {"live", "closing"}
  /\ singerSessions' =
       [singerSessions EXCEPT
          ![i] = SingerSession("closed", singerSessions[i].forFX)]
  /\ exitCalls' = IF ~isChangingFX THEN Append(exitCalls, i) ELSE exitCalls
  /\ UNCHANGED <<vocalFX, isChangingFX>>
  /\ OnlyTouches("singer")

NextSinger ==
  \/ \E fx \in VocalFXs : HandleFXChange(fx)
  \/ \E i \in 1..Len(singerSessions) : SongDataFetched(i)
  \/ \E i \in 1..Len(singerSessions) : SingerOnClose(i)

SpecSinger == InitSinger /\ [][NextSinger]_vars

\* ------------------------------- PodcastView / MovieExplainerView services
\* initService (part_004 lines 481-544), onError (540-543) and the mount
\* effect with its cleanup (546-559); MovieExplainerView.tsx lines 219-243
\* are the same.  An initService invocation is "stopping" while it awaits
\* stopAdventure of the previous service, "fetching" once it created its
\* service and awaits fetchLore, "live" once it called startAdventure,
\* "stopped" once stopAdventure was called on its live service.
MaxReconnects == 2

\* the state after the mount effect ran initService(config) up to its first
\* await: serviceRef.current was null, so the service is created at once
InitLifecycle ==
  /\ ServiceNull
  /\ TranscriptIdle
  /\ UtilIdleExcept("lifecycle")
  /\ podMounted = TRUE
  /\ podServices = <<"fetching">>
  /\ podServiceRef = 1
  /\ reconnectTimers = 0
  /\ errorCount = 0
  /\ cleanupStopped = 0
  /\ lateStarts = {}

\* serviceRef.current.stopAdventure(): the session of a live service is
\* closed; a service that has not called startAdventure yet has no
\* sessionPromise, and stopAdventure does not keep it from starting
StopCurrent(services, ref) ==
  IF ref # 0 /\ services[ref] = "live"
  THEN [services EXCEPT ![ref] = "stopped"]
  ELSE services

\* fetchLore resolves: initService calls service.startAdventure
LoreFetched(i) ==
  /\ podServices[i] = "fetching"
  /\ podServices' = [podServices EXCEPT ![i] = "live"]
  /\ lateStarts' = IF podMounted THEN lateStarts ELSE lateStarts \cup {i}
  /\ UNCHANGED <<podMounted, podServiceRef, reconnectTimers, errorCount,
                 cleanupStopped>>
  /\ OnlyTouches("lifecycle")

\* the transport reports an error on a live session: onError, lines 540-543
PodOnError(i) ==
  /\ errorCount < MaxReconnects
  /\ podServices[i] = "live"
  /\ errorCount' = errorCount + 1
  /\ reconnectTimers' = reconnectTimers + 1
  /\ UNCHANGED <<podMounted, podServices, podServiceRef, cleanupStopped,
                 lateStarts>>
  /\ OnlyTouches("lifecycle")

\* the timer fires: initService(config) up to its first await, line 483
ReconnectTimerFires ==
  /\ reconnectTimers > 0
  /\ reconnectTimers' = reconnectTimers - 1
  /\ IF podServiceRef # 0
     THEN /\ podServices' =
               Append(StopCurrent(podServices, podServiceRef), "stopping")
          /\ UNCHANGED podServiceRef
     ELSE /\ podServices' = Append(podServices, "fetching")
          /\ podServiceRef' = Len(podServices) + 1
  /\ UNCHANGED <<podMounted, errorCount, cleanupStopped, lateStarts>>
  /\ OnlyTouches("lifecycle")

\* stopAdventure of the previous service resolves: lines 485-494, the new
\* service is created and fetchLore awaited
PreviousStopped(i) ==
  /\ podServices[i] = "stopping"
  /\ podServices' = [podServices EXCEPT ![i] = "fetching"]
  /\ podServiceRef' = i
  /\ UNCHANGED <<podMounted, reconnectTimers, errorCount, cleanupStopped,
                 lateStarts>>
  /\ OnlyTouches("lifecycle")

\* the view is unmounted: the cleanup of lines 554-558
PodUnmount ==
  /\ podMounted
  /\ podMounted' = FALSE
  /\ podServices' = StopCurrent(podServices, podServiceRef)
  /\ cleanupStopped' =
       IF podServices' # podServices THEN podServiceRef ELSE 0
  /\ UNCHANGED <<podServiceRef, reconnectTimers, errorCount, lateStarts>>
  /\ OnlyTouches("lifecycle")

NextLifecycle ==
  \/ \E i \in 1..Len(podServices) : LoreFetched(i)
  \/ \E i \in 1..Len(podServices) : PodOnError(i)
  \/ ReconnectTimerFires
  \/ \E i \in 1..Len(podServices) : PreviousStopped(i)
  \/ PodUnmount

SpecLifecycle == InitLifecycle /\ [][NextLifecycle]_vars

\* --------------------------------------------------- StoryGuruView playback
\* src/components/StoryGuruView.tsx: stopPlayback (lines 176-182),
\* playSegment (184-216), startPlayback (218-225) and the two buttons that
\* call them (lines 343 and 371).  isPlaying is React state: a function
\* reads the value of the render that created it.  A click runs the handler
\* of the latest render; playSegment called by startPlayback, by an onended
\* handler or by a timer reads the isPlaying its caller's closure holds.
\* Every part has a buffer for every segment, and the audio context is
\* running.
MaxClicks == 3
PartIds == {0, 1}
SegIds == {0, 1}
LogEntry(kind, part, seg) == [kind |-> kind, part |-> part, seg |-> seg]

InitGuru ==
  /\ ServiceNull
  /\ TranscriptIdle
  /\ UtilIdleExcept("guru")
  /\ isPlaying = FALSE
  /\ activePartIndex = 0
  /\ currentSource = 0
  /\ guruSources = <<>>
  /\ guruTimers = {}
  /\ guruClicks = 0
  /\ guruLog = <<>>

\* playSegment(partIdx, segIdx) in a closure that sees isPlaying = seen:
\* what it does, as [starts, part, seg, ends]: a source started for (part,
\* seg), or setIsPlaying(false) at the end of the last part, or nothing
RECURSIVE playSegment(_, _, _)
playSegment(seen, partIdx, segIdx) ==
  IF ~seen \/ partIdx \notin PartIds
  THEN [starts |-> FALSE, ends |-> FALSE, part |-> partIdx, seg |-> segIdx]
  ELSE IF segIdx \notin SegIds
  THEN IF partIdx + 1 \in PartIds
       THEN playSegment(seen, partIdx + 1, 0)
       ELSE [starts |-> FALSE, ends |-> TRUE, part |-> partIdx,
             seg |-> segIdx]
  ELSE [starts |-> TRUE, ends |-> FALSE, part |-> partIdx, seg |-> segIdx]

\* the sources after playSegment did what `did` says
SourcesAfter(srcs, did) ==
  IF did.starts
  THEN Append(srcs, [part |-> did.part, seg |-> did.seg, phase |-> "playing"])
  ELSE srcs
LogAfter(log, did) ==
  IF did.starts THEN Append(log, LogEntry("play", did.part, did.seg)) ELSE log

\* stopPlayback: stop() on the current source, whose ended event follows
StoppedSources(srcs, cur) ==
  IF cur # 0 /\ srcs[cur].phase = "playing"
  THEN [srcs EXCEPT ![cur].phase = "stopping"]
  ELSE srcs

\* the round button, line 371: stopPlayback when the render shows playing,
\* startPlayback(activePartIndex) otherwise
ClickPlayButton ==
  /\ guruClicks < MaxClicks
  /\ guruClicks' = guruClicks + 1
  /\ IF isPlaying
     THEN /\ isPlaying' = FALSE
          /\ guruSources' = StoppedSources(guruSources, currentSource)
          /\ currentSource' = 0
          /\ guruLog' = Append(guruLog, LogEntry("stop", 0, 0))
          /\ UNCHANGED activePartIndex
     ELSE LET did == playSegment(isPlaying, activePartIndex, 0)
          IN /\ isPlaying' = IF did.ends THEN FALSE ELSE TRUE
             /\ guruSources' = SourcesAfter(guruSources, did)
             /\ currentSource' = IF did.starts THEN Len(guruSources')
                                 ELSE currentSource
             /\ guruLog' =
                  LogAfter(Append(guruLog,
                                  LogEntry("start", activePartIndex, 0)), did)
             /\ UNCHANGED activePartIndex
  /\ UNCHANGED guruTimers
  /\ OnlyTouches("guru")

\* a part's button, line 343: stopPlayback(); startPlayback(i)
ClickPart(i) ==
  /\ guruClicks < MaxClicks
  /\ guruClicks' = guruClicks + 1
  /\ LET did == playSegment(isPlaying, i, 0)
         stoppedSrcs == StoppedSources(guruSources, currentSource)
     IN /\ isPlaying' = IF did.ends THEN FALSE ELSE TRUE
        /\ activePartIndex' = i
        /\ guruSources' = SourcesAfter(stoppedSrcs, did)
        /\ currentSource' = IF did.starts THEN Len(guruSources') ELSE 0
        /\ guruLog' =
             LogAfter(Append(Append(guruLog, LogEntry("stop", 0, 0)),
                             LogEntry("start", i, 0)), did)
  /\ UNCHANGED guruTimers
  /\ OnlyTouches("guru")

\* a source ends, played out or stopped: its onended handler, lines
\* 205-209, in the closure of the playSegment that created it, which saw
\* isPlaying true
GuruSourceEnded(n) ==
  /\ guruSources[n].phase \in {"playing", "stopping"}
  /\ guruSources' = [guruSources EXCEPT ![n].phase = "ended"]
  /\ guruTimers' =
       guruTimers \cup {[part |-> guruSources[n].part,
                         seg |-> guruSources[n].seg + 1, seen |-> TRUE]}
  /\ guruLog' = Append(guruLog, LogEntry("ended", guruSources[n].part,
                                         guruSources[n].seg))
  /\ UNCHANGED <<isPlaying, activePartIndex, currentSource, guruClicks>>
  /\ OnlyTouches("guru")

\* the 600 ms timer fires: playSegment(partIdx, segIdx + 1) in that closure
GuruTimerFires(t) ==
  /\ guruTimers' = guruTimers \ {t}
  /\ LET did == playSegment(t.seen, t.part, t.seg)
     IN /\ isPlaying' = IF did.ends THEN FALSE ELSE isPlaying
        /\ guruSources' = SourcesAfter(guruSources, did)
        /\ currentSource' = IF did.starts THEN Len(guruSources')
                            ELSE currentSource
        /\ guruLog' = LogAfter(guruLog, did)
  /\ UNCHANGED <<activePartIndex, guruClicks>>
  /\ OnlyTouches("guru")

NextGuru ==
  \/ ClickPlayButton
  \/ \E i \in PartIds : ClickPart(i)
  \/ \E n \in 1..Len(guruSources) : GuruSourceEnded(n)
  \/ \E t \in guruTimers : GuruTimerFires(t)

SpecGuru == InitGuru /\ [][NextGuru]_vars

\* ------------------------------------------------------------- the claims
Started == {started[i] : i \in 1..Len(started)}
ArrivalEpoch(s) == chunks[s.id].epoch

\* C1: chunks are started on the output clock in the order in which they
\* arrived (chunk ids are arrival order), also with several handleAudioOutput
\* invocations suspended at their awaits.
C1_StartedInArrivalOrder ==
  \A i, j \in 1..Len(started) : i < j => started[i].id < started[j].id

\* C2: no two sources that have not been stopped are audible at the same time:
\* their real playback intervals [max(start argument, clock at the call),
\* + duration) are disjoint.
C2_NoOverlap ==
  \A s, t \in Started :
    (s.id # t.id /\ s.id \notin stopped /\ t.id \notin stopped)
      => (PlayTo(s) <= PlayFrom(t) \/ PlayTo(t) <= PlayFrom(s))

\* C3: two chunks scheduled one after the other with no stopAllAudio since
\* either arrived, the later one reaching line 253 no later than the earlier
\* one's scheduled end, are back to back: start_{i+1} = start_i + d_i.
C3_Pair(i) ==
  LET a == started[i]
      b == started[i + 1]
  IN /\ ArrivalEpoch(a) = b.epoch
     /\ ArrivalEpoch(b) = b.epoch
     /\ b.at <= a.arg + Dur(a.id)
C4_MonotoneButForStop ==
  [][/\ stopCount' = stopCount => nextStartTime' >= nextStartTime
     /\ nextStartTime' < nextStartTime => nextStartTime' = 0]_vars
C4_Witness ==
  stopCount > 0 /\ nextStartTime > 0 /\ \E s \in Started : s.epoch < stopCount

\* C5: after stopAllAudio every chunk received before it is halted: none of
\* them is a live source and none of them starts playing after it.
C5_NothingSurvivesStop ==
  \A s \in Started :
    ArrivalEpoch(s) < stopCount => (s.epoch = ArrivalEpoch(s) /\ s.id \notin sources)

\* C6: while the service is paused no chunk is scheduled for playback and none
\* is appended to recordedBuffers.
C6_NothingScheduledWhilePaused ==
  [][isPaused => (started' = started /\ recordedBuffers' = recordedBuffers)]_vars

\* C7: a message delivered while the service is paused makes no call of
\* onTranscriptionUpdate.
C7_NoTranscriptWhilePaused ==
  (lastMsg.delivered /\ lastMsg.paused) => lastMsg.trCalls = 0
C7_Witness ==
  lastMsg.delivered /\ lastMsg.paused /\ lastMsg.trPayloads > 0

\* C8: every delivered message that carries turnComplete makes exactly one
\* call of onTurnComplete when the caller supplied it, paused or not.
C8_TurnCompleteAlwaysReported ==
  (lastMsg.delivered /\ lastMsg.tcMsg /\ hasTurnCb) => lastMsg.tcCalls = 1

\* C9: the contextual message is sent exactly once per session and is the
\* first outbound frame: no sendTextChoice text goes out before it and no
\* inbound message is handled before it.
Contextual == {i \in 1..Len(outbound) : outbound[i].by = "onopen"}
C9_ContextualMessageFirst ==
  /\ Cardinality(Contextual) <= 1
  /\ outbound # <<>> => outbound[1].by = "onopen"
  /\ sessionPromise = "fulfilled" => Cardinality(Contextual) = 1
  /\ lastMsg.delivered => Cardinality(Contextual) = 1

\* C10: with a non-empty history the contextual message is the resume message
\* and contains the text of the last history entry, whatever that text is;
\* with an empty history it is the initiation message.
IsResume(text) ==
  /\ Len(text) >= 2
  /\ text[1] = ResumeHead[1]
  /\ text[Len(text)] = ResumeTail[1]
Contains(text, t) ==
  \E i \in 1..(Len(text) - Len(t) + 1) : SubSeq(text, i, i + Len(t) - 1) = t
C10_ResumeQuotesLastEntry ==
  \A i \in Contextual :
    IF history # <<>>
    THEN IsResume(outbound[i].text) /\ Contains(outbound[i].text, LastTurn(history))
    ELSE outbound[i].text = Initiation

\* stopAdventure was called on a started session: it awaits the session, or
\* it has closed it
StopCalledOnSession == stopPc = "awaitSession" \/ sessionClosed
\* stopAdventure has completed on a started session
StopCompleted == stopPc = "done" /\ sessionClosed
ChoiceFrames(q) == Cardinality({i \in 1..Len(q) : q[i].by = "sendTextChoice"})

\* C11: sendTextChoice is a no-op when the session is not active: before
\* startAdventure, and after stopAdventure has completed, no step hands a
\* sendTextChoice frame to the transport.
C11_SendInertWithoutSession ==
  [][(sessionPromise = "null" \/ StopCompleted)
       => ChoiceFrames(outbound') = ChoiceFrames(outbound)]_vars

\* C12: a setPaused(true) step empties the live set and zeroes nextStartTime
\* and leaves the session, the transport, the microphone stream and processor
\* and both contexts as they were; a setPaused(false) step changes the paused
\* flag and nothing else: no source is started, no callback reported, no
\* buffer recorded.
PauseOn ==
  /\ isPaused'
  /\ stopCount' = stopCount + 1
  /\ stopCalls' = stopCalls
  /\ microtasks' = microtasks
PauseOff == isPaused /\ ~isPaused'
C12_PauseTouchesPlaybackOnly ==
  [][/\ PauseOn =>
          /\ sources' = {}
          /\ nextStartTime' = 0
          /\ UNCHANGED <<sessionPromise, wsOpen, thenQ, outbound, outCtx,
                         micVars, stopVars>>
     /\ PauseOff =>
          UNCHANGED <<sessionPromise, outCtx, nextStartTime, sources,
                      recordedBuffers, contextSummary, hasTurnCb, rtVars,
                      envVars, logVars, micVars, stopVars>>]_vars
C12_Witness ==
  /\ isPaused
  /\ stopped # {}
  /\ stream # 0
  /\ stream \notin released
  /\ sessionPromise = "fulfilled"
  /\ outCtx = "running"
  /\ lastMsg.delivered /\ lastMsg.paused

\* C22: every chunk scheduled is in recordedBuffers exactly once, and
\* recordedBuffers is in arrival order.
RecordedAt(id) == {i \in 1..Len(recordedBuffers) : recordedBuffers[i] = id}
C22_RecordedOnceInArrivalOrder ==
  /\ \A s \in Started : Cardinality(RecordedAt(s.id)) = 1
  /\ \A i, j \in 1..Len(recordedBuffers) :
        i < j => recordedBuffers[i] < recordedBuffers[j]

\* C23: recordedBuffers only grows: after every step the buffer before the
\* step is a prefix of the buffer after it.
C23_RecordingOnlyGrows ==
  [][/\ Len(recordedBuffers') >= Len(recordedBuffers)
     /\ SubSeq(recordedBuffers', 1, Len(recordedBuffers)) = recordedBuffers]_vars
C23_Witness ==
  /\ Len(recordedBuffers) = 2
  /\ StopCompleted
  /\ stopCount >= 2
  /\ micCalls[Len(micCalls)].active = FALSE
  /\ sendCount >= 1

\* C24: a payload that cannot be decoded is neither recorded nor scheduled,
\* the session, the contexts and the callbacks stay as they were, and once
\* nothing is in progress every chunk that does decode has been recorded and
\* scheduled.
Damaged == {id \in 1..Len(chunks) : chunks[id].dur = Undecodable}
C24_OnlyTheDamagedChunkIsLost ==
  /\ \A id \in Damaged :
        /\ RecordedAt(id) = {}
        /\ id \notin sources
        /\ \A s \in Started : s.id # id
  /\ sessionPromise = "fulfilled" /\ ~sessionClosed /\ wsOpen /\ hasTurnCb
  /\ outCtx \in {"suspended", "running"} /\ inCtx \in {"suspended", "running"}
  /\ (microtasks = <<>> /\ resumeWaiters = <<>>) =>
        \A id \in (1..Len(chunks)) \ Damaged :
           /\ Cardinality(RecordedAt(id)) = 1
           /\ \E s \in Started : s.id = id
C24_Witness ==
  /\ Len(chunks) = 2
  /\ Damaged = {1}
  /\ recordedBuffers = <<2>>
  /\ 2 \in sources

\* C13: stopAdventure completes without throwing or rejecting from every
\* state: no stopAdventure call ends in a rejection.
C13_StopNeverRejects == stopPc # "rejected"

\* C14: when stopAdventure completes on a started session the session is
\* closed, the tracks of the stream held are stopped, no source is live,
\* nextStartTime is 0 and both contexts are closed; and from the moment
\* stopAdventure is called no source is started.
C14_StopLeavesNothingPlaying ==
  [][/\ StopCompleted' =>
          /\ sessionClosed'
          /\ stream' # 0 => stream' \in released'
          /\ sources' = {}
          /\ nextStartTime' = 0
          /\ inCtx' = "closed"
          /\ outCtx' = "closed"
     /\ StopCalledOnSession => started' = started]_vars

\* C15: once stopAdventure has been called, a message delivered afterwards
\* is not handled: it reports no transcription and no turn completion, and
\* its audio payload is not taken in for recording and playback.
C15_NoHandlingAfterStop ==
  [][StopCalledOnSession =>
       /\ chunks' = chunks
       /\ lastMsg' # lastMsg =>
            lastMsg'.trCalls = 0 /\ lastMsg'.tcCalls = 0]_vars

\* C16: a transport error invokes onError, a transport close invokes
\* onClose, neither handler sends anything or connects, and connect is
\* called by startAdventure only.
C16_TransportEventsOnlyReported ==
  [][/\ lastTransport'.kind = "error" =>
          lastTransport'.onError = 1 /\ lastTransport'.connects = 0
     /\ lastTransport'.kind = "close" =>
          lastTransport'.onClose = 1 /\ lastTransport'.connects = 0
     /\ lastTransport' # lastTransport =>
          outbound' = outbound /\ thenQ' = thenQ /\ connectCalls' = connectCalls
     /\ connectCalls' # connectCalls =>
          sessionPromise = "null" /\ sessionPromise' = "pending"]_vars
C16_Witness ==
  /\ lastTransport.kind = "error"
  /\ sessionPromise = "fulfilled"
  /\ connectCalls = 1
  /\ outbound # <<>>

MicCallIds == 1..Len(micCalls)
Acquiring == {n \in MicCallIds : micCalls[n].pc = "gum"}
MicCallsDone == \A n \in MicCallIds : micCalls[n].pc \in {"ok", "returned", "failed"}

\* C17: at most one microphone stream is acquired and held at any time:
\* getUserMedia is not awaited by two calls at once, nor by one while a stream
\* is held, and every stream acquired and not stopped is the one referenced.
C17_OneStreamAtATime ==
  /\ Cardinality(Acquiring) <= 1
  /\ Acquiring # {} => stream = 0
  /\ (acquired \ released) \subseteq {stream}

\* C18: when the getUserMedia of a setMicActive(true) call fails, the call
\* rejects and leaves isMicActive false and no stream and no processor held.
C18_FailedAcquisitionRollsBack ==
  [][\A n \in MicCallIds :
       (micCalls[n].pc = "gum" /\ micCalls'[n].pc = "failed") =>
          /\ isMicActive' = FALSE
          /\ stream' = 0
          /\ scriptProcessor' = 0]_vars

\* C19: while the latest setMicActive call is a completed setMicActive(false),
\* no stream is held and every stream acquired has been stopped.
C19_ReleasedAfterDeactivate ==
  (/\ micCalls # <<>>
   /\ ~micCalls[Len(micCalls)].active
   /\ micCalls[Len(micCalls)].pc \in {"ok", "returned"})
  => (stream = 0 /\ acquired \subseteq released)

\* C21: a block captured while paused or while the microphone is inactive
\* adds no media frame, then or later; a block captured while active and not
\* paused adds exactly one media frame, after all frames of earlier blocks; no
\* other step adds, removes or reorders a media frame.
MicNumbers(q) ==
  LET mic == SelectSeq(q, LAMBDA f : f.by = "mic")
  IN [i \in 1..Len(mic) |-> mic[i].text[1]]
C21_BlocksGatedAndInOrder ==
  [][LET before == MicNumbers(outbound \o thenQ)
         after == MicNumbers(outbound' \o thenQ')
     IN IF frameCount' = frameCount + 1
        THEN after = IF isPaused \/ ~isMicActive
                     THEN before ELSE Append(before, frameCount + 1)
        ELSE after = before]_vars
C21_Witness ==
  /\ frameCount = 2
  /\ MicNumbers(outbound \o thenQ) = <<2>>
  /\ isMicActive /\ ~isPaused

\* C20: whenever no setMicActive call is in progress, isMicActive is true only
\* if a stream is held.
C20_FlagAgreesWithDevice ==
  (micCalls # <<>> /\ MicCallsDone /\ isMicActive) => stream # 0

\* C28: smartAppend returns next trimmed when prev is empty, prev when next
\* is empty, and prev when prev ends with next.
C28_EmptyAndRepeatedSuffix ==
  saApplied =>
    /\ saPrev = <<>> => saResult = Trim(saNext)
    /\ saNext = <<>> => saResult = saPrev
    /\ (saPrev # <<>> /\ EndsWith(saPrev, saNext)) => saResult = saPrev
    /\ (saPrev = <<>> /\ saNext = Hi) => saResult = Hi
    /\ (saPrev = Hi /\ saNext = <<>>) => saResult = Hi
    /\ (saPrev = HelloWorld /\ saNext = World) => saResult = HelloWorld
C28_Witness ==
  saApplied /\ saPrev = <<"a", "b", " ">> /\ saNext = <<"b", " ">>
  /\ saResult = saPrev

\* C29: when prev does not end with next and a suffix of prev of length 2 or
\* more is a prefix of next, the result is prev followed by next without its
\* first k characters, k the longest such overlap; an overlap of one character
\* is not spliced.
OneCharOverlap(p, n) == p # <<>> /\ n # <<>> /\ p[Len(p)] = n[1]
C29_SplicesLongestOverlap ==
  saApplied =>
    /\ (~EndsWith(saPrev, saNext) /\ Overlaps(saPrev, saNext) # {}) =>
          saResult = saPrev \o SubSeq(saNext, MaxOf(Overlaps(saPrev, saNext)) + 1,
                                      Len(saNext))
    /\ (~EndsWith(saPrev, saNext) /\ Overlaps(saPrev, saNext) = {}
          /\ OneCharOverlap(saPrev, saNext)) =>
          saResult # saPrev \o Tail(saNext)
    /\ (saPrev = HelloWor /\ saNext = World) => saResult = HelloWorld

\* C29 as amended: the same with prev and next taken trimmed.
C29_SplicesLongestTrimmedOverlap ==
  LET cleanPrev == Trim(saPrev)
      cleanNext == Trim(saNext)
  IN (saApplied /\ saPrev # <<>> /\ saNext # <<>>) =>
       /\ (~EndsWith(cleanPrev, cleanNext) /\ Overlaps(cleanPrev, cleanNext) # {}) =>
             saResult = cleanPrev \o
                        SubSeq(cleanNext, MaxOf(Overlaps(cleanPrev, cleanNext)) + 1,
                               Len(cleanNext))
       /\ (~EndsWith(cleanPrev, cleanNext) /\ Overlaps(cleanPrev, cleanNext) = {}
             /\ OneCharOverlap(cleanPrev, cleanNext)) =>
             saResult # cleanPrev \o Tail(cleanNext)
       /\ (saPrev = HelloWor /\ saNext = World) => saResult = HelloWorld
C29_Witness ==
  saApplied /\ saPrev = <<"a", "a", "b">> /\ saNext = <<"a", "b", "b">>
  /\ saResult = <<"a", "a", "b", "b">>

\* C30: when prev and next are non-empty, prev does not end with next and
\* they share no overlap of length 2 or more, the result is prev and next with
\* one space between them, or with nothing between them when prev ends with
\* whitespace, next starts with whitespace or next starts with sentence
\* punctuation.
C30_JoinsWithOneSpace ==
  (saApplied /\ saPrev # <<>> /\ saNext # <<>> /\ ~EndsWith(saPrev, saNext)
     /\ Overlaps(saPrev, saNext) = {}) =>
    /\ saResult =
         saPrev \o (IF \/ saPrev[Len(saPrev)] \in Whitespace
                       \/ saNext[1] \in Whitespace
                       \/ saNext[1] \in Punctuation
                    THEN <<>> ELSE <<" ">>) \o saNext
    /\ (saPrev = Hello /\ saNext = There) => saResult = Hello \o <<" ">> \o There

\* C30 as amended: overlap and repeated suffix are judged on prev and next
\* trimmed; the space is left out when prev ends with a space character, next
\* starts with a space character, or next trimmed starts with one of the
\* punctuation marks of line 478.
C30_JoinsTrimmedDisjointWithOneSpace ==
  LET cleanPrev == Trim(saPrev)
      cleanNext == Trim(saNext)
  IN (saApplied /\ saPrev # <<>> /\ saNext # <<>>
        /\ ~EndsWith(cleanPrev, cleanNext) /\ Overlaps(cleanPrev, cleanNext) = {}) =>
       /\ saResult =
            saPrev \o (IF \/ saPrev[Len(saPrev)] = " "
                          \/ saNext[1] = " "
                          \/ cleanNext[1] \in Punctuation
                       THEN <<>> ELSE <<" ">>) \o saNext
       /\ (saPrev = Hello /\ saNext = There) => saResult = Hello \o <<" ">> \o There
C30_Witness ==
  saApplied /\ saPrev = <<"a", "\t">> /\ saNext = <<".", "b">>
  /\ saResult = <<"a", "\t", ".", "b">>

\* --------------------------------------------------------- the reconciler
\* the positions of a role's messages in the history
MessagesOf(role, msgs) == {i \in 1..Len(msgs) : msgs[i].role = role}
Other(role) == IF role = "user" THEN "model" ELSE "user"

\* The events so far are: one or more non-final fragments of the first role,
\* each with text left after cleaning, then one or more fragments of the
\* other role, and no turn-complete signal.
FirstThenOther(first) ==
  \E k \in 1..(Len(events) - 1) :
     /\ \A i \in 1..k :
           /\ events[i].role = first
           /\ ~events[i].isFinal
           /\ cleanText(events[i].text) # <<>>
     /\ \A i \in (k + 1)..Len(events) : events[i].role = Other(first)

\* C25: in AdventureView, when a first role has sent non-final fragments and
\* then the other role sends fragments, for either choice of first role,
\* the first message of the second role in the history is preceded by
\* exactly one message, and that one is the first role's.
C25_FirstRoleCommittedFirst ==
  \A first \in Roles :
     (view = "AdventureView" /\ FirstThenOther(first)
        /\ MessagesOf(Other(first), messages) # {})
     => LET f == CHOOSE i \in MessagesOf(Other(first), messages) :
                    \A j \in MessagesOf(Other(first), messages) : i <= j
        IN f = 2 /\ messages[1].role = first

\* C26: the history never holds two adjacent entries with the same role and
\* identical text, in either view.
C26_NoAdjacentDuplicates ==
  \A i \in 1..(Len(messages) - 1) : messages[i] # messages[i + 1]

\* smartAppend applied to the fragments in order, starting from the empty
\* accumulator
RECURSIVE Accumulate(_)
Accumulate(frags) ==
  IF frags = <<>> THEN <<>>
  ELSE smartAppend(Accumulate(SubSeq(frags, 1, Len(frags) - 1)),
                   frags[Len(frags)])
Cleaned(frags) == [i \in 1..Len(frags) |-> cleanText(frags[i])]

Accumulator(role) ==
  IF role = "model" THEN narratorAccumulator ELSE userAccumulator

\* this step delivers a fragment marked final for the role to AdventureView
FinalArrives(role) ==
  /\ view = "AdventureView"
  /\ Len(events') = Len(events) + 1
  /\ events'[Len(events')].role = role
  /\ events'[Len(events')].isFinal

\* this step appends one message of the role with this text, at the end
AppendsOne(role, text) ==
  /\ Len(messages') > Len(messages)
  /\ SubSeq(messages', 1, Len(messages)) = messages
  /\ messages'[Len(messages')] = Message(role, text)
  /\ Cardinality(MessagesOf(role, messages'))
       = Cardinality(MessagesOf(role, messages)) + 1

\* the message that would precede the new one is already this one: the last
\* entry of the history, no pending user text being committed in between
PrecededBySame(role, text) ==
  /\ Len(messages) > 0
  /\ messages[Len(messages)] = Message(role, text)
  /\ ~(role = "model" /\ Trim(userAccumulator) # <<>>)

\* C27 as stated: when a final fragment arrives for a role, one message is
\* appended whose text is the trimmed smartAppend accumulation of every
\* fragment of the role since its last commit, if that text is non-empty,
\* and the role's accumulator is empty afterwards.
C27_FinalCommitsAccumulation ==
  [][\A role \in Roles :
       FinalArrives(role)
       => LET text == Trim(Accumulate(Append(sinceCommit[role],
                                             events'[Len(events')].text)))
          IN /\ text # <<>> => AppendsOne(role, text)
             /\ Accumulator(role)' = <<>>]_vars

\* C27, amended: the accumulation is of the cleaned fragments, and nothing is
\* appended when the preceding message already has that role and text.
C27_FinalCommitsCleanedAccumulationOnce ==
  [][\A role \in Roles :
       FinalArrives(role)
       => LET text ==
                Trim(Accumulate(Cleaned(Append(sinceCommit[role],
                                               events'[Len(events')].text))))
          IN /\ (text # <<>> /\ ~PrecededBySame(role, text))
                  => AppendsOne(role, text)
             /\ (text # <<>> /\ PrecededBySame(role, text))
                  => messages' = messages
             /\ Accumulator(role)' = <<>>]_vars

\* a final fragment of the model arrived after an earlier fragment of the
\* model and the two were committed as one message
C27_Witness ==
  /\ view = "AdventureView"
  /\ Len(events) = 2
  /\ events[1] = TranscriptionEvent("model", <<"a">>, FALSE)
  /\ events[2] = TranscriptionEvent("model", <<"(", "a", ")", "b">>, TRUE)
  /\ messages = <<Message("model", <<"a", " ", "b">>)>>
  /\ narratorAccumulator = <<>>

\* --------------------------------------------------------- encode / decode
\* C31: for every byte sequence, the empty one, the all-zero and the
\* all-0xFF ones included, decode(encode(b)) = b.
C31_DecodeInvertsEncode == decoded.done => decoded = Returned(bytes)
\* two 0xFF bytes, a padded final group, went through both functions
C31_Witness ==
  /\ decoded.done
  /\ bytes = <<255, 255>>

\* ------------------------------------------------- fastAudioBuffersToWav
AllMono == \A i \in 1..Len(buffers) : buffers[i].numberOfChannels = 1
RECURSIVE SampleCount(_)
SampleCount(bs) ==
  IF bs = <<>> THEN 0
  ELSE SampleCount(SubSeq(bs, 1, Len(bs) - 1)) + bs[Len(bs)].length

\* C32: for a non-empty list of mono buffers the data-size field is twice
\* the number of samples, the RIFF size field is 36 more, the file is 44
\* bytes longer than the data size and the sample writes end at the end of
\* the file; for 100, 200 and 150 samples the data size is 900 and the
\* file length 944.
C32_WavSizes ==
  (wav.done /\ buffers # <<>> /\ AllMono)
  => /\ ~wav.threw
     /\ wav.value.hasHeader
     /\ wav.value.dataSize = 2 * SampleCount(buffers)
     /\ wav.value.riffSize = 36 + wav.value.dataSize
     /\ wav.value.size = 44 + wav.value.dataSize
     /\ wav.value.end = wav.value.size
     /\ buffers = ThreeBuffers
          => wav.value.dataSize = 900 /\ wav.value.size = 944
C32_Witness ==
  /\ wav.done
  /\ buffers = ThreeBuffers
  /\ wav.value.size = 944

\* C33: for the empty list the muxer returns a 44-byte header whose
\* data-size field is 0.
C33_EmptyListGivesHeader ==
  (wav.done /\ buffers = <<>>)
  => /\ ~wav.threw
     /\ wav.value.hasHeader
     /\ wav.value.size = 44
     /\ wav.value.dataSize = 0

\* -------------------------------------------------------------- createBlob
\* C34: each outgoing sample is clamped to [-1, 1] and scaled by 32767 when
\* positive and by 32768 when negative: inputs above 1 and 1.0 give 32767,
\* inputs below -1 and -1.0 give -32768, and every output is an int16.
C34_ClampsAndScalesBySign ==
  int16.done =>
    \A i \in 1..Len(data) :
       LET x == data[i]
           y == int16.value[i]
       IN /\ y \in -32768..32767
          /\ x >= SampleUnit => y = 32767
          /\ x <= -SampleUnit => y = -32768
          /\ (0 <= x /\ x < SampleUnit) => y = (x * 32767) \div SampleUnit
          /\ (-SampleUnit < x /\ x < 0)
               => y = -(((-x) * 32768) \div SampleUnit)

\* ----------------------------------------------------------- callWithRetry
\* an error whose message holds "429" or, in any letter case, "quota"
QuotaShaped(outcome) ==
  /\ ~outcome.ok
  /\ outcome.message.defined
  /\ \E i \in 1..Len(outcome.message.text) :
        \/ /\ i + 2 <= Len(outcome.message.text)
           /\ outcome.message.text[i] = "4"
           /\ outcome.message.text[i + 1] = "2"
           /\ outcome.message.text[i + 2] = "9"
        \/ /\ i + 4 <= Len(outcome.message.text)
           /\ outcome.message.text[i] \in {"q", "Q"}
           /\ outcome.message.text[i + 1] = "u"
           /\ outcome.message.text[i + 2] = "o"
           /\ outcome.message.text[i + 3] = "t"
           /\ outcome.message.text[i + 4] = "a"

\* The call is over and went as C35 says: at most 6 invocations, each but
\* the last failed with a quota-shaped error, the wait before retry k + 1
\* was 20 + 10 * k seconds, and the call returned after a success or threw
\* the last error, that error being of another shape or the sixth.
RetriedAsStated ==
  /\ retryPc \in {"returned", "thrown"}
  /\ Len(apiCalls) \in 1..6
  /\ \A i \in 1..(Len(apiCalls) - 1) : QuotaShaped(apiCalls[i])
  /\ waitTimes = [k \in 1..(Len(apiCalls) - 1) |-> 20 + 10 * (k - 1)]
  /\ \A k \in 2..Len(waitTimes) : waitTimes[k] > waitTimes[k - 1]
  /\ retryPc = "returned" <=> apiCalls[Len(apiCalls)].ok
  /\ retryPc = "thrown" =>
        /\ rethrown = Returned(apiCalls[Len(apiCalls)])
        /\ ~QuotaShaped(apiCalls[Len(apiCalls)]) \/ Len(apiCalls) = 6

\* C35: when every apiCall invocation terminates, callWithRetry terminates,
\* having invoked apiCall at most 6 times, retried only after quota-shaped
\* errors with waits of 20 + 10 * retryCount seconds, and rethrown any other
\* error and a quota error on the sixth attempt.
C35_RetriesBoundedAndTerminates == <>[]RetriedAsStated
\* the sixth attempt failed with a quota error and was rethrown
C35_Witness ==
  /\ retryPc = "thrown"
  /\ Len(apiCalls) = 6
  /\ waitTimes = <<20, 30, 40, 50, 60>>

\* ------------------------------------------------- smartAppend, repeated
\* C36: appending the same fragment twice changes nothing the second time:
\* smartAppend(smartAppend(prev, next), next) = smartAppend(prev, next).
C36_SecondAppendChangesNothing == saAgain.done => saAgain.value = saResult
\* a fragment that was spliced onto an overlapping accumulator, then repeated
C36_Witness ==
  /\ saAgain.done
  /\ saPrev = <<"a", "a", "b">>
  /\ saNext = <<"a", "b", "b">>
  /\ saResult = <<"a", "a", "b", "b">>

\* --------------------------------- PodcastView / MovieExplainerView transcript
\* this step delivers a final model fragment after non-final ones of the turn
PodFinalAfterFragments ==
  /\ Len(podEvents') = Len(podEvents) + 1
  /\ podEvents'[Len(podEvents')].role = "model"
  /\ podEvents'[Len(podEvents')].isFinal
  /\ turnFragments # <<>>

\* C37: when a final model fragment arrives after non-final model fragments
\* of the same turn, the last message of the transcript is the model's and
\* its text contains each earlier fragment and the final fragment, and the
\* in-progress model text is empty afterwards.
C37_FinalMessageHoldsWholeTurn ==
  [][PodFinalAfterFragments
     => /\ Len(transcriptions') > 0
        /\ LET last == transcriptions'[Len(transcriptions')]
           IN /\ last.role = "model"
              /\ \A i \in 1..Len(turnFragments) :
                    Includes(last.text, turnFragments[i])
              /\ Includes(last.text,
                          podCleanText(podEvents'[Len(podEvents')].text))
        /\ currentModelText' = <<>>]_vars

\* ---------------------------------------------------------------- SingerView
\* C38: the close event of a session stopped for an FX change never calls
\* onExit, whenever it arrives.
C38_FXChangeNeverExits ==
  \A k \in 1..Len(exitCalls) : ~singerSessions[exitCalls[k]].forFX

C40_SequentialAndCancellable ==
  \A j \in 1..Len(guruLog) :
     /\ guruLog[j].kind = "start"
          => /\ j < Len(guruLog)
             /\ guruLog[j + 1] = LogEntry("play", guruLog[j].part, 0)
     /\ (guruLog[j].kind = "play" /\ guruLog[j].seg > 0)
          => \E i \in 1..(j - 1) :
                guruLog[i] = LogEntry("ended", guruLog[j].part,
                                      guruLog[j].seg - 1)
     /\ guruLog[j].kind = "play"
          => ~\E i \in 1..(j - 1) :
                 /\ guruLog[i].kind = "stop"
                 /\ \A k \in (i + 1)..(j - 1) : guruLog[k].kind # "start"
====
